---- MODULE Spec2Model ----
(***************************************************************************)
(* MoltAgent control plane: the WebSocket session manager                  *)
(* (ControlPlaneServer), the fleet registry (FleetManager) and the         *)
(* approval queue (ApprovalManager), as state machines.                    *)
(*                                                                         *)
(* One Node.js process, one event loop: every handler below runs to        *)
(* completion, so every handler is one action.                             *)
(***************************************************************************)
EXTENDS Integers, Sequences, FiniteSets, TLC

\* ------------------------------------------------------------------ bounds
MaxAgents == 2
MaxSockets == 2
\* request ids a worker may put in approval_request.request.id
MaxReqIds == 2
\* PendingApproval objects ever constructed by addRequest
MaxObjs == 2
\* the wall clock runs 0..MaxTime
MaxTime == 2
\* recordAction / recordError calls in one run
MaxCalls == 2
\* consecutive failed connection attempts of the bridge
MaxAttempts == 8
\* management calls suspended at a provider call at the same time
MaxPend == 2
\* instances the providers create in one run
MaxInstances == 2
\* generateCloudInit calls in one run
MaxScripts == 2

AgentIds == 1..MaxAgents
Sockets == 1..MaxSockets

\* ------------------------------------------------------- program constants
\* this.agents.get(agentId) === undefined: no session indexed
NoSock == 0
\* existing.ws.close(4000, "Replaced by new connection")
CodeReplaced == 4000
\* conn.ws.close(1001, "Control plane shutting down")
CodeShutdown == 1001
\* ws.close(4001, "Unauthorized")
CodeUnauthorized == 4001
\* const MAX_RECENT_ACTIONS = 200
MAX_RECENT_ACTIONS == 200
\* const MAX_RECENT_ERRORS = 50
MAX_RECENT_ERRORS == 50
\* private maxReconnectDelay = 60_000
maxReconnectDelay == 60000
\* the first reconnect delay: 1000 * 2 ** 0
BaseDelay == 1000
\* const gatewayPort = 18789
gatewayPort == 18789

VARIABLES
  sock,       \* socket id -> the server-side WebSocket object
  agents,     \* ControlPlaneServer.agents: agent id -> socket id (NoSock: no entry)
  listening,  \* the WebSocketServer still completes upgrades (wss.close() not called)
  mode,       \* "attach" (gateway upgrade path) or "standalone" (own port)
  fleet,      \* FleetManager.agents: agent id -> AgentRecord
  appr,       \* the PendingApproval objects, by object identity (1..Len(appr))
  queue,      \* ApprovalManager.queue: the queued objects in Map insertion order
  history,    \* ApprovalManager.history: [recent |-> objects, index 1 is history[0],
              \*   older |-> how many earlier entries lie behind them]
  nHist,      \* number of addToHistory calls so far (history bookkeeping)
  timerOn,    \* ApprovalManager.expiryTimer is armed (close() not called)
  now,        \* Date.now()
  last,       \* the last handler that ran: its inputs, its result, its effects in order
  acct,       \* FleetManager.agents, the accounting fields of each AgentRecord:
              \*   totalActions, totalSpend, recentActions, recentErrors, deployedAt
  tally,      \* bookkeeping, per agent id: calls / errors, the recordAction /
              \*   recordError calls ever made; counted, the recordAction calls made
              \*   since its present record was created; spend, the numeric spend
              \*   amounts recorded into its present record
  disk,       \* the snapshot file at storagePath
  fm,         \* FleetManager.dirty and whether its save timer is armed
  bridge,     \* the worker's MoltAgentBridge
  promises,   \* the requestApproval completions the worker has created, in call order
  down,       \* frames the control plane wrote to the bridge's connection, not yet read
  prov,       \* MoltAgentProvisioner.instances: agent id -> the indexed VpsInstance
  cloud,      \* the providers' side: instances created so far, those not destroyed,
              \*   and the agent id each was created for (owner[instance id])
  pend,       \* management calls suspended at `await provider.create / destroy`
  generated   \* the scripts generateCloudInit has returned, in call order, each
              \*   with the manifest it was called with

cpVars == <<sock, agents, listening, mode>>
apprVars == <<appr, queue, history, nHist, timerOn>>
storeVars == <<acct, tally, disk, fm>>
workerVars == <<bridge, promises, down>>
provVars == <<prov, cloud, pend, generated>>
serverVars == <<sock, agents, listening, mode, fleet, appr, queue, history, nHist, timerOn,
                now, last, acct, tally, disk, fm, prov, cloud, pend, generated>>
vars == <<sock, agents, listening, mode, fleet, appr, queue, history, nHist, timerOn, now, last,
          acct, tally, disk, fm, bridge, promises, down, prov, cloud, pend, generated>>

\* ------------------------------------------------------------ wire values
\* A query parameter or header that may be absent (null / undefined).
NullTok == [some |-> FALSE, v |-> <<>>]
SomeTok(x) == [some |-> TRUE, v |-> x]
NullId == [some |-> FALSE, v |-> 0]
SomeId(x) == [some |-> TRUE, v |-> x]

\* Strings are sequences of pieces; "" is <<>>.
authToken == <<"T">>
Bearer == "Bearer "

RECURSIVE RemoveFirst(_, _)
\* String.prototype.replace(piece, ""): drops the first occurrence only.
RemoveFirst(str, piece) ==
  IF str = <<>> THEN <<>>
  ELSE IF Head(str) = piece THEN Tail(str)
  ELSE <<Head(str)>> \o RemoveFirst(Tail(str), piece)

\* req.headers.authorization?.replace("Bearer ", "")
HeaderToken(h) == IF h.some THEN SomeTok(RemoveFirst(h.v, Bearer)) ELSE NullTok

\* attach: url.searchParams.get("token") ?? req.headers.authorization?.replace(...)
AttachToken(q, h) == IF q.some THEN q ELSE HeaderToken(h)

\* startStandalone: url.searchParams.get("token") ?? ""  (the header is not read)
StandaloneToken(q, h) == IF q.some THEN q.v ELSE <<>>

\* !agentId : null, undefined and "" are all falsy
AgentIdMissing(aid) == ~aid.some \/ aid.v = 0

\* ---------------------------------------------------------------- sockets
FreshSock == [agentId |-> 0, readyState |-> "NEW", sentCode |-> 0]

\* ws.close(code, reason): starts the closing handshake of an OPEN socket; on a
\* socket that is already CLOSING or CLOSED it sends nothing.
WsClose(sk, code) ==
  IF sk.readyState = "OPEN"
  THEN [sk EXCEPT !.readyState = "CLOSING", !.sentCode = code]
  ELSE sk

FreeSockets == {s \in Sockets : sock[s].readyState = "NEW"}

\* ------------------------------------------------------------------ fleet
NoRecord == [present |-> FALSE, connection |-> "unknown"]

\* FleetManager.updateAgentConnection
UpdateAgentConnection(f, a, c) ==
  IF ~f[a].present THEN f ELSE [f EXCEPT ![a].connection = c]

\* FleetManager.registerAgent: connection starts again at "unknown"
RegisterAgentRecord(f, a) ==
  [f EXCEPT ![a] = [present |-> TRUE, connection |-> "unknown"]]

\* FleetManager.load: every record of the snapshot comes back offline
LoadedFleets ==
  [AgentIds -> {NoRecord, [present |-> TRUE, connection |-> "offline"]}]

\* An array whose newest entries are spelled out: recent[1] is index 0, and
\* `older` more entries lie behind them.
EmptyRing == [recent |-> <<>>, older |-> 0]

\* The accounting fields of a record registerAgent creates, before its stamp
FreshAcct == [totalActions |-> 0, totalSpend |-> 0, recentActions |-> EmptyRing,
              recentErrors |-> EmptyRing, deployedAt |-> -1]

\* this.agents has no entry under the id
NoAcct == [deployedAt |-> -1]

\* registerAgent without the existing?. fallbacks: every registration starts afresh
RegisterAcct_Reset(existing, ac, t) == [FreshAcct EXCEPT !.deployedAt = t]

\* FleetManager.registerAgent, the fields taken from the existing record:
\* deployedAt: existing?.deployedAt ?? new Date().toISOString(), and so on
RegisterAcct(existing, ac, t) ==
  IF existing THEN ac ELSE [FreshAcct EXCEPT !.deployedAt = t]

\* FleetManager.markDirty
MarkDirty(f) == [f EXCEPT !.dirty = TRUE]

\* ------------------------------------------------------- handleConnection
\* handleConnection without the close of the previous socket
CloseExisting_Keep(a) == sock

\* "Replace existing connection if agent reconnects"
CloseExisting(a) ==
  IF agents[a] # NoSock
  THEN [sock EXCEPT ![agents[a]] = WsClose(@, CodeReplaced)]
  ELSE sock

ConnectionEffects(s, a) ==
  (IF agents[a] # NoSock THEN << <<"close", agents[a], CodeReplaced>> >> ELSE <<>>)
  \o << <<"set", a, s>>, <<"online", a>> >>

\* ControlPlaneServer.handleConnection(ws, agentId, req) with ws = socket s
HandleConnection(s, a) ==
  /\ sock' = [CloseExisting(a) EXCEPT
                ![s] = [agentId |-> a, readyState |-> "OPEN", sentCode |-> 0]]
  /\ agents' = [agents EXCEPT ![a] = s]
  /\ fleet' = UpdateAgentConnection(fleet, a, "online")
  /\ fm' = IF fleet[a].present THEN MarkDirty(fm) ELSE fm

Rejected == UNCHANGED <<sock, agents, fleet, fm>>

\* httpServer.on("upgrade") of attach(): q = ?token=, h = Authorization, aid = ?agentId=
Upgrade(pathOk, q, h, aid) ==
  /\ mode = "attach"
  /\ UNCHANGED <<listening, mode, apprVars, now, acct, tally, disk>>
  /\ LET in == [mode |-> mode, pathOk |-> pathOk, q |-> q, h |-> h, aid |-> aid] IN
     IF ~pathOk
     THEN Rejected /\ last' = [op |-> "connect", arg |-> in, ret |-> "ignored", fx |-> <<>>]
     ELSE IF AttachToken(q, h) # SomeTok(authToken)
     THEN Rejected /\ last' = [op |-> "connect", arg |-> in, ret |-> "401", fx |-> <<>>]
     ELSE IF AgentIdMissing(aid)
     THEN Rejected /\ last' = [op |-> "connect", arg |-> in, ret |-> "400", fx |-> <<>>]
     ELSE IF ~listening \/ FreeSockets = {}
     THEN \* wss.handleUpgrade on a closed server aborts the handshake
          /\ ~listening
          /\ Rejected
          /\ last' = [op |-> "connect", arg |-> in, ret |-> "503", fx |-> <<>>]
     ELSE LET s == CHOOSE x \in FreeSockets : \A y \in FreeSockets : x <= y IN
          /\ HandleConnection(s, aid.v)
          /\ last' = [op |-> "connect", arg |-> in, ret |-> "admitted",
                      fx |-> ConnectionEffects(s, aid.v)]

\* wss.on("connection") of startStandalone()
StandaloneConnection(pathOk, q, h, aid) ==
  /\ mode = "standalone"
  /\ listening
  /\ UNCHANGED <<listening, mode, apprVars, now, acct, tally, disk>>
  /\ LET in == [mode |-> mode, pathOk |-> pathOk, q |-> q, h |-> h, aid |-> aid] IN
     IF StandaloneToken(q, h) # authToken \/ AgentIdMissing(aid)
     THEN Rejected
          /\ last' = [op |-> "connect", arg |-> in, ret |-> "4001",
                      fx |-> << <<"close", 0, CodeUnauthorized>> >>]
     ELSE /\ FreeSockets # {}
          /\ LET s == CHOOSE x \in FreeSockets : \A y \in FreeSockets : x <= y IN
             /\ HandleConnection(s, aid.v)
             /\ last' = [op |-> "connect", arg |-> in, ret |-> "admitted",
                         fx |-> ConnectionEffects(s, aid.v)]

\* -------------------------------------------------------- ws.on("close")
\* the close handler without the identity check
IsIndexed_Always(a, s) == TRUE

\* this.agents.get(agentId)?.ws === ws
IsIndexed(a, s) == agents[a] = s

\* The peer closes, or the transport dies: the socket leaves OPEN; its close
\* event is delivered later.
PeerClose(s) ==
  /\ sock[s].readyState = "OPEN"
  /\ sock' = [sock EXCEPT ![s].readyState = "CLOSING"]
  /\ last' = [op |-> "peerClose", arg |-> s, ret |-> "", fx |-> <<>>]
  /\ UNCHANGED <<agents, listening, mode, fleet, apprVars, now, storeVars>>

\* The close handler registered by handleConnection, for socket s
CloseEvent(s) ==
  /\ sock[s].readyState = "CLOSING"
  /\ LET a == sock[s].agentId IN
     /\ sock' = [sock EXCEPT ![s] = FreshSock]
     /\ IF IsIndexed(a, s)
        THEN /\ agents' = [agents EXCEPT ![a] = NoSock]
             /\ fleet' = UpdateAgentConnection(fleet, a, "offline")
             /\ fm' = IF fleet[a].present THEN MarkDirty(fm) ELSE fm
             /\ last' = [op |-> "closeEvent", arg |-> <<s, a, sock[s].sentCode>>, ret |-> "removed",
                         fx |-> << <<"delete", a>>, <<"offline", a>> >>]
        ELSE /\ UNCHANGED <<agents, fleet, fm>>
             /\ last' = [op |-> "closeEvent", arg |-> <<s, a, sock[s].sentCode>>, ret |-> "stale", fx |-> <<>>]
  /\ UNCHANGED <<listening, mode, apprVars, now, acct, tally, disk>>

\* the handlers called with the agentId the frame itself carries
SessionAgentId_FromFrame(s, msgAgent) == msgAgent

\* this.handleAgentMessage(agentId, msg): agentId is the one handleConnection
\* was called with for socket s, whatever msg.agentId says
SessionAgentId(s, msgAgent) == sock[s].agentId

\* ------------------------------------------------------ ws.on("message")
\* The message handler registered by handleConnection, for socket s. JSON.parse
\* throws on an unparseable frame and the catch drops it; a frame whose type no
\* case matches falls through the switch. A heartbeat stamps conn.lastHeartbeat
\* and the record's lastHeartbeat / uptimeSec, which are not part of this state,
\* and marks the fleet dirty.
\* The frame's own agentId field (msgAgent) is not what reaches the handlers.
HandleFrameFrom(s, msgAgent, type) ==
  /\ sock[s].readyState \in {"OPEN", "CLOSING"}
  /\ LET a == SessionAgentId(s, msgAgent)
         stamps == type \in {"heartbeat", "status"} /\ fleet[a].present IN
     /\ last' = [op |-> "frame", arg |-> <<s, a, type, msgAgent>>, ret |-> "",
                 fx |-> IF stamps
                        THEN << <<IF type = "heartbeat" THEN "updateHeartbeat"
                                  ELSE "updateAgentStatus", a>> >>
                        ELSE <<>>]
     /\ fm' = IF stamps THEN MarkDirty(fm) ELSE fm
  /\ UNCHANGED <<cpVars, fleet, apprVars, now, acct, tally, disk>>

\* a frame whose agentId field names the session's own agent
HandleFrame(s, type) == HandleFrameFrom(s, sock[s].agentId, type)

\* ------------------------------------------------ ControlPlaneServer.close
\* close() without this.wss?.close()
CpClose_KeepListening ==
  /\ sock' = [s \in Sockets |->
                IF \E a \in AgentIds : agents[a] = s
                THEN WsClose(sock[s], CodeShutdown) ELSE sock[s]]
  /\ agents' = [a \in AgentIds |-> NoSock]
  /\ listening' = listening
  /\ last' = [op |-> "cpClose", arg |-> <<>>, ret |-> "", fx |-> <<>>]
  /\ UNCHANGED <<mode, fleet, apprVars, now, storeVars>>

\* ControlPlaneServer.close: every indexed socket is closed with 1001, the
\* index is cleared, the WebSocketServer is closed
CpClose ==
  /\ sock' = [s \in Sockets |->
                IF \E a \in AgentIds : agents[a] = s
                THEN WsClose(sock[s], CodeShutdown) ELSE sock[s]]
  /\ agents' = [a \in AgentIds |-> NoSock]
  /\ listening' = FALSE
  /\ last' = [op |-> "cpClose", arg |-> <<>>, ret |-> "", fx |-> <<>>]
  /\ UNCHANGED <<mode, fleet, apprVars, now, storeVars>>

\* ----------------------------------------------------- fleet operations
\* FleetManager.registerAgent (dashboard POST /agents, after provisioning)
RegisterAgent(a) ==
  /\ fleet' = RegisterAgentRecord(fleet, a)
  /\ acct' = [acct EXCEPT ![a] = RegisterAcct(fleet[a].present, acct[a], now)]
  /\ fm' = MarkDirty(fm)
  /\ last' = [op |-> "registerAgent", arg |-> a, ret |-> "", fx |-> <<>>]
  /\ UNCHANGED <<cpVars, apprVars, now, tally, disk>>

\* FleetManager.removeAgent
RemoveAgent(a) ==
  /\ fleet[a].present
  /\ fleet' = [fleet EXCEPT ![a] = NoRecord]
  /\ acct' = [acct EXCEPT ![a] = NoAcct]
  /\ tally' = [tally EXCEPT ![a].counted = 0, ![a].spend = 0]
  /\ fm' = MarkDirty(fm)
  /\ last' = [op |-> "removeAgent", arg |-> a, ret |-> "true", fx |-> <<>>]
  /\ UNCHANGED <<cpVars, apprVars, now, disk>>

\* ------------------------------------------------------- ApprovalManager
\* private maxHistory = 1000
maxHistory == 1000

ReqIds == 1..MaxReqIds

\* request.expiresAt is a string from the wire: an ISO date, or anything else
DateString(ms) == [valid |-> TRUE, ms |-> ms]
InvalidDate == [valid |-> FALSE, ms |-> 0]

\* new Date(approval.expiresAt).getTime() < now   (NaN < now is false)
ExpiryPassed(expiresAt, t) == expiresAt.valid /\ expiresAt.ms < t

\* this.queue.get(requestId): the queued object with that id, 0 for undefined
QueueGet(q, id) ==
  IF \E i \in 1..Len(q) : appr[q[i]].id = id
  THEN q[CHOOSE i \in 1..Len(q) : appr[q[i]].id = id]
  ELSE 0

\* this.queue.set(id, o): a key already in the Map keeps its position
QueueSet(q, id, o) ==
  IF \E i \in 1..Len(q) : appr[q[i]].id = id
  THEN [i \in 1..Len(q) |-> IF appr[q[i]].id = id THEN o ELSE q[i]]
  ELSE Append(q, o)

RECURSIVE Without(_, _)
\* this.queue.delete(id) for the id of object o
Without(q, o) ==
  IF q = <<>> THEN <<>>
  ELSE IF Head(q) = o THEN Tail(q)
  ELSE <<Head(q)>> \o Without(Tail(q), o)

\* this.history.length
HistoryLength(h) == Len(h.recent) + h.older

\* this.history.length = n, for n below the length: cuts the oldest entries off
SetLength(h, n) ==
  IF Len(h.recent) <= n
  THEN [recent |-> h.recent, older |-> n - Len(h.recent)]
  ELSE [recent |-> SubSeq(h.recent, 1, n), older |-> 0]

\* addToHistory without the cut
AddToHistory_NoTruncate(h, o) == [recent |-> <<o>> \o h.recent, older |-> h.older]

\* addToHistory: unshift, then cut to maxHistory
AddToHistory(h, o) ==
  LET h1 == [recent |-> <<o>> \o h.recent, older |-> h.older] IN
  IF HistoryLength(h1) > maxHistory THEN SetLength(h1, maxHistory) ELSE h1

\* ControlPlaneServer.sendToAgent as called by sendApprovalResponse: what is
\* written to which socket (nothing unless the agent's session is OPEN)
ApprovalResponseSent(a, id, approved) ==
  IF a \in DOMAIN agents /\ agents[a] # NoSock /\ sock[agents[a]].readyState = "OPEN"
  THEN << <<"send", agents[a], "approval_response", id, approved>> >>
  ELSE <<>>

\* callbacks.onResolved as wired by the orchestrator: relay to the agent
OnResolved(o, rec) ==
  << <<"onResolved", o, rec.state>> >>
  \o ApprovalResponseSent(rec.agentId, rec.id, rec.state = "approved")

\* ApprovalManager.addRequest(agentId, request)
AddRequest(a, id, expiresAt) ==
  /\ Len(appr) < MaxObjs
  /\ LET o == Len(appr) + 1 IN
     /\ appr' = Append(appr, [id |-> id, agentId |-> a, expiresAt |-> expiresAt,
                              state |-> "pending", respondedBy |-> "",
                              histSeq |-> 0])
     /\ queue' = QueueSet(queue, id, o)
     /\ last' = [op |-> "addRequest", arg |-> <<a, id, expiresAt>>, ret |-> o,
                 fx |-> << <<"onNewApproval", o>> >>]
  /\ UNCHANGED <<history, nHist, timerOn, now, cpVars, fleet, storeVars>>

\* if (!approval || approval.state !== "pending") return null
Resolvable(o) == o # 0 /\ appr[o].state = "pending"

\* this.queue.delete(requestId)
ResolveQueue(q, o) == Without(q, o)

\* resolve without the state check and without queue.delete
Resolve_KeepQueued(id, approved, by) ==
  /\ LET o == QueueGet(queue, id) IN
     IF o = 0
     THEN /\ UNCHANGED <<appr, queue, history, nHist>>
          /\ last' = [op |-> "resolve", arg |-> <<id, approved, by>>, ret |-> 0, fx |-> <<>>]
     ELSE LET rec == [appr[o] EXCEPT !.state = IF approved THEN "approved" ELSE "denied",
                                     !.respondedBy = by,
                                     !.histSeq = nHist + 1] IN
          /\ appr' = [appr EXCEPT ![o] = rec]
          /\ queue' = queue
          /\ history' = AddToHistory(history, o)
          /\ nHist' = nHist + 1
          /\ last' = [op |-> "resolve", arg |-> <<id, approved, by>>, ret |-> o,
                      fx |-> OnResolved(o, rec)]
  /\ UNCHANGED <<timerOn, now, cpVars, fleet, storeVars>>

\* ApprovalManager.resolve(requestId, approved, respondedBy)
Resolve(id, approved, by) ==
  /\ LET o == QueueGet(queue, id) IN
     IF ~Resolvable(o)
     THEN /\ UNCHANGED <<appr, queue, history, nHist>>
          /\ last' = [op |-> "resolve", arg |-> <<id, approved, by>>, ret |-> 0, fx |-> <<>>]
     ELSE LET rec == [appr[o] EXCEPT !.state = IF approved THEN "approved" ELSE "denied",
                                     !.respondedBy = by,
                                     !.histSeq = nHist + 1] IN
          /\ appr' = [appr EXCEPT ![o] = rec]
          /\ queue' = ResolveQueue(queue, o)
          /\ history' = AddToHistory(history, o)
          /\ nHist' = nHist + 1
          /\ last' = [op |-> "resolve", arg |-> <<id, approved, by>>, ret |-> o,
                      fx |-> OnResolved(o, rec)]
  /\ UNCHANGED <<timerOn, now, cpVars, fleet, storeVars>>

\* the expiry test with <= for <
IsStale_Inclusive(o, t) ==
  appr[o].state = "pending" /\ appr[o].expiresAt.valid /\ appr[o].expiresAt.ms <= t

\* approval.state === "pending" && new Date(approval.expiresAt).getTime() < now
IsStale(o, t) == appr[o].state = "pending" /\ ExpiryPassed(appr[o].expiresAt, t)

RECURSIVE ExpireFrom(_, _)
\* for (const [id, approval] of this.queue) { ... }: st is the manager's state and
\* the effects so far, todo the entries the loop has still to visit
ExpireFrom(todo, st) ==
  IF todo = <<>> THEN st
  ELSE LET o == Head(todo) IN
       IF IsStale(o, now)
       THEN LET rec == [st.appr[o] EXCEPT !.state = "expired", !.histSeq = st.nHist + 1] IN
            ExpireFrom(Tail(todo),
                       [appr |-> [st.appr EXCEPT ![o] = rec],
                        queue |-> Without(st.queue, o),
                        history |-> AddToHistory(st.history, o),
                        nHist |-> st.nHist + 1,
                        fx |-> st.fx \o OnResolved(o, rec)])
       ELSE ExpireFrom(Tail(todo), st)

\* ApprovalManager.expireStale, run by the 10-second interval timer
ExpireStale ==
  /\ timerOn
  /\ LET st == ExpireFrom(queue, [appr |-> appr, queue |-> queue, history |-> history,
                                  nHist |-> nHist, fx |-> <<>>]) IN
     /\ appr' = st.appr
     /\ queue' = st.queue
     /\ history' = st.history
     /\ nHist' = st.nHist
     /\ last' = [op |-> "expireStale", arg |-> <<>>, ret |-> 0, fx |-> st.fx]
  /\ UNCHANGED <<timerOn, now, cpVars, fleet, storeVars>>

\* ApprovalManager.close: clearInterval(this.expiryTimer)
ApprovalsClose ==
  /\ timerOn' = FALSE
  /\ last' = [op |-> "approvalsClose", arg |-> <<>>, ret |-> 0, fx |-> <<>>]
  /\ UNCHANGED <<appr, queue, history, nHist, now, cpVars, fleet, storeVars>>

\* the wall clock advances
Tick ==
  /\ now < MaxTime
  /\ now' = now + 1
  /\ last' = [op |-> "tick", arg |-> <<>>, ret |-> 0, fx |-> <<>>]
  /\ UNCHANGED <<apprVars, cpVars, fleet, storeVars>>

\* getApproval(requestId)
GetApproval(id) == QueueGet(queue, id)

\* getPending(): the queued objects whose state is pending
GetPending == {queue[i] : i \in {j \in 1..Len(queue) : appr[queue[j]].state = "pending"}}

\* ------------------------------------------------- FleetManager accounting
\* arr.unshift(x)
Unshift(r, x) == [recent |-> <<x>> \o r.recent, older |-> r.older]

\* unshift without the cut to the capacity
PushCapped_NoCut(r, x, cap) == Unshift(r, x)

\* arr.unshift(x); if (arr.length > cap) arr.length = cap
PushCapped(r, x, cap) ==
  LET r1 == Unshift(r, x) IN
  IF HistoryLength(r1) > cap THEN SetLength(r1, cap) ELSE r1

\* action.details?.amount as it arrives: absent, a number, a string that reads
\* as a number, or the boolean true
NoAmount == [t |-> "none", v |-> 0]
NumAmount(n) == [t |-> "number", v |-> n]
StrAmount(n) == [t |-> "string", v |-> n]
TrueAmount == [t |-> "boolean", v |-> 1]

\* msg.action as it arrives: an ActionLogEntry, or undefined when the frame
\* has no action field
NoAction == [given |-> FALSE, category |-> "", amount |-> NoAmount]
ActionEntry(cat, amt) == [given |-> TRUE, category |-> cat, amount |-> amt]

\* truthiness of action.details?.amount: undefined, 0 are falsy; a non-empty
\* string and true are truthy
Truthy(amt) ==
  CASE amt.t = "none" -> FALSE
    [] amt.t = "number" -> amt.v # 0
    [] amt.t = "string" -> TRUE
    [] amt.t = "boolean" -> TRUE

\* Number(action.details.amount) || 0 : Number("3") is 3, Number(true) is 1
NumberOrZero(amt) == amt.v

\* details.amount is numeric: a number, or a string that reads as one
IsNumeric(amt) == amt.t \in {"number", "string"}

\* recordAction reads action.category of undefined and throws after the
\* unshift and the increment; the message handler's catch swallows it
RecordActionThrows(action) == ~action.given

\* recordAction with the increment moved into the spend branch
RecordAction_CountSpend(ac, action, n) ==
  LET e  == [seq |-> n, json |-> IF action.given THEN "object" ELSE "undefined"]
      a1 == [ac EXCEPT !.recentActions = PushCapped(@, e, MAX_RECENT_ACTIONS)]
  IN IF action.given /\ action.category = "spend" /\ Truthy(action.amount)
     THEN [a1 EXCEPT !.totalActions = @ + 1,
                     !.totalSpend = @ + NumberOrZero(action.amount)]
     ELSE a1

\* FleetManager.recordAction on an existing record; n stamps the entry
RecordAction(ac, action, n) ==
  LET e  == [seq |-> n, json |-> IF action.given THEN "object" ELSE "undefined"]
      a1 == [ac EXCEPT !.recentActions = PushCapped(@, e, MAX_RECENT_ACTIONS),
                       !.totalActions = @ + 1]
  IN IF action.given /\ action.category = "spend" /\ Truthy(action.amount)
     THEN [a1 EXCEPT !.totalSpend = @ + NumberOrZero(action.amount)]
     ELSE a1

\* FleetManager.recordError on an existing record
RecordError(ac, n) ==
  [ac EXCEPT !.recentErrors = PushCapped(@, [seq |-> n, json |-> "object"], MAX_RECENT_ERRORS)]

RECURSIVE CallsOf(_)
\* recordAction / recordError calls made so far by the agents in S
CallsOf(S) ==
  IF S = {} THEN 0
  ELSE LET a == CHOOSE x \in S : TRUE IN
       tally[a].calls + tally[a].errors + CallsOf(S \ {a})

CallsMade == CallsOf(AgentIds)

\* The message handler for an "action" frame on socket s:
\* handleAgentMessage -> fleet.recordAction(agentId, msg.action)
ActionFrameFrom(s, msgAgent, action) ==
  /\ sock[s].readyState \in {"OPEN", "CLOSING"}
  /\ CallsMade < MaxCalls
  /\ LET a == SessionAgentId(s, msgAgent)
         n == tally[a].calls + 1 IN
     /\ IF fleet[a].present
        THEN /\ acct' = [acct EXCEPT ![a] = RecordAction(@, action, n)]
             /\ fm' = IF RecordActionThrows(action) THEN fm ELSE MarkDirty(fm)
             /\ tally' = [tally EXCEPT
                   ![a].calls = n,
                   ![a].counted = @ + 1,
                   ![a].spend = @ + IF action.given /\ action.category = "spend"
                                       /\ IsNumeric(action.amount)
                                    THEN action.amount.v ELSE 0]
        ELSE /\ UNCHANGED <<acct, fm>>
             /\ tally' = [tally EXCEPT ![a].calls = n]
     /\ last' = [op |-> "frame", arg |-> <<s, a, "action", msgAgent>>,
                 ret |-> IF fleet[a].present /\ RecordActionThrows(action) THEN "caught" ELSE "",
                 fx |-> << <<"recordAction", a>> >>]
  /\ UNCHANGED <<cpVars, fleet, apprVars, now, disk>>

ActionFrame(s, action) == ActionFrameFrom(s, sock[s].agentId, action)

\* The message handler for an "error" frame on socket s:
\* handleAgentMessage -> fleet.recordError(agentId, msg.error)
ErrorFrameFrom(s, msgAgent) ==
  /\ sock[s].readyState \in {"OPEN", "CLOSING"}
  /\ CallsMade < MaxCalls
  /\ LET a == SessionAgentId(s, msgAgent)
         n == tally[a].errors + 1 IN
     /\ IF fleet[a].present
        THEN /\ acct' = [acct EXCEPT ![a] = RecordError(@, n)]
             /\ fm' = MarkDirty(fm)
        ELSE UNCHANGED <<acct, fm>>
     /\ tally' = [tally EXCEPT ![a].errors = n]
     /\ last' = [op |-> "frame", arg |-> <<s, a, "error", msgAgent>>, ret |-> "",
                 fx |-> << <<"recordError", a>> >>]
  /\ UNCHANGED <<cpVars, fleet, apprVars, now, disk>>

ErrorFrame(s) == ErrorFrameFrom(s, sock[s].agentId)

\* ws.on("message") of socket s for a well-formed frame msg:
\* JSON.parse, then handleAgentMessage(agentId, msg) and its switch on msg.type
OnMessage(s, msg) ==
  CASE msg.type = "action" -> ActionFrameFrom(s, msg.agentId, msg.action)
    [] msg.type = "error" -> ErrorFrameFrom(s, msg.agentId)
    [] msg.type = "approval_request" ->
         /\ sock[s].readyState \in {"OPEN", "CLOSING"}
         /\ AddRequest(SessionAgentId(s, msg.agentId), msg.request, DateString(1))
    [] OTHER -> HandleFrameFrom(s, msg.agentId, msg.type)

\* The message handler for an "approval_request" frame without a request field
\* on socket s: addRequest(agentId, undefined) builds the approval from
\* {...undefined}, then reads request.id of undefined and throws before
\* queue.set; the message handler's catch swallows it
RequestFrameNoPayload(s) ==
  /\ sock[s].readyState \in {"OPEN", "CLOSING"}
  /\ last' = [op |-> "frame", arg |-> <<s, sock[s].agentId, "approval_request">>,
              ret |-> "caught", fx |-> << <<"addRequest", sock[s].agentId>> >>]
  /\ UNCHANGED <<cpVars, fleet, apprVars, now, storeVars>>

\* ------------------------------------------------ FleetManager persistence
\* JSON.stringify turns an undefined array element into null
JsonEntry(e) == IF e.json = "undefined" THEN [e EXCEPT !.json = "null"] ELSE e
JsonRing(r) == [recent |-> [i \in 1..Len(r.recent) |-> JsonEntry(r.recent[i])], older |-> r.older]
JsonAcct(ac) == [ac EXCEPT !.recentActions = JsonRing(@), !.recentErrors = JsonRing(@)]

\* What a file at storagePath can hold: nothing (no file), bytes JSON.parse
\* rejects, or a snapshot {version, updatedAt, agents}
NoStored == [present |-> FALSE]
MissingFile == [kind |-> "missing", version |-> 0, agents |-> <<>>]
CorruptFile == [kind |-> "corrupt", version |-> 0, agents |-> <<>>]
Snapshot(v, f, ac) ==
  [kind |-> "json", version |-> v,
   agents |-> [a \in AgentIds |->
                 IF f[a].present
                 THEN [present |-> TRUE, connection |-> f[a].connection, acct |-> JsonAcct(ac[a])]
                 ELSE NoStored]]

\* FleetManager.save: writeFileSync(storagePath, JSON.stringify(snapshot)).
\* The write is taken to succeed.
Save(f, ac) == Snapshot(1, f, ac)

\* load without forcing the connection
Load_KeepConnection(file) ==
  IF file.kind = "json" /\ file.version = 1
  THEN [fleet |-> [a \in AgentIds |->
                     IF file.agents[a].present
                     THEN [present |-> TRUE, connection |-> file.agents[a].connection]
                     ELSE NoRecord],
        acct |-> [a \in AgentIds |->
                    IF file.agents[a].present THEN file.agents[a].acct ELSE NoAcct]]
  ELSE [fleet |-> [a \in AgentIds |-> NoRecord], acct |-> [a \in AgentIds |-> NoAcct]]

\* FleetManager.load: readFileSync or JSON.parse throwing, or a version other
\* than 1, leave the map empty; otherwise every record comes back offline
Load(file) ==
  IF file.kind = "json" /\ file.version = 1
  THEN [fleet |-> [a \in AgentIds |->
                     IF file.agents[a].present
                     THEN [present |-> TRUE, connection |-> "offline"]
                     ELSE NoRecord],
        acct |-> [a \in AgentIds |->
                    IF file.agents[a].present THEN file.agents[a].acct ELSE NoAcct]]
  ELSE [fleet |-> [a \in AgentIds |-> NoRecord], acct |-> [a \in AgentIds |-> NoAcct]]

\* The 30-second save timer: if (this.dirty) this.save()
SaveTick ==
  /\ fm.timer /\ fm.dirty
  /\ disk' = Save(fleet, acct)
  /\ fm' = [fm EXCEPT !.dirty = FALSE]
  /\ last' = [op |-> "saveTick", arg |-> <<>>, ret |-> "", fx |-> << <<"save">> >>]
  /\ UNCHANGED <<cpVars, fleet, apprVars, now, acct, tally>>

\* FleetManager.close: clearInterval(saveTimer); if (this.dirty) this.save()
FleetClose ==
  /\ fm.timer
  /\ disk' = IF fm.dirty THEN Save(fleet, acct) ELSE disk
  /\ fm' = [dirty |-> FALSE, timer |-> FALSE]
  /\ last' = [op |-> "fleetClose", arg |-> <<>>, ret |-> "",
              fx |-> IF fm.dirty THEN << <<"save">> >> ELSE <<>>]
  /\ UNCHANGED <<cpVars, fleet, apprVars, now, acct, tally>>

\* The process is started again on the same storage path after close():
\* new FleetManager(storagePath) loads the file, a new ApprovalManager and a
\* new ControlPlaneServer start empty
Restart ==
  /\ ~fm.timer
  /\ fleet' = Load(disk).fleet
  /\ acct' = Load(disk).acct
  /\ fm' = [dirty |-> FALSE, timer |-> TRUE]
  /\ sock' = [s \in Sockets |-> FreshSock]
  /\ agents' = [a \in AgentIds |-> NoSock]
  /\ listening' = TRUE
  /\ appr' = <<>> /\ queue' = <<>> /\ history' = [recent |-> <<>>, older |-> 0]
  /\ nHist' = 0 /\ timerOn' = TRUE
  /\ last' = [op |-> "restart", arg |-> <<>>, ret |-> "", fx |-> <<>>]
  /\ UNCHANGED <<mode, now, tally, disk>>

\* ------------------------------------------------------- MoltAgentBridge
\* The worker whose bridge is modelled: it dials with its manifest's identity.id
Worker == CHOOSE a \in AgentIds : \A b \in AgentIds : a <= b

\* Bridge state right after the process started and called bridge.connect():
\*   ws        "none" (this.ws null or its socket gone), "connecting", "open",
\*             "refused" (the handshake was answered with an error),
\*             "closing" (close() called, the socket's close event still to come)
\*   peer      the server-side socket of the bridge's connection (NoSock: none)
\*   closed    this.closed
\*   reconnect a reconnect timer set by scheduleReconnect is armed
\*   attempt   this.reconnectAttempt
\*   delay     the delay the last scheduleReconnect passed to setTimeout (ms;
\*             0: none yet)
\*   table     this.pendingApprovals: request id -> the call whose handler is
\*             registered (0: no entry)
NewBridge ==
  [ws |-> "connecting", peer |-> NoSock, closed |-> FALSE, reconnect |-> FALSE,
   attempt |-> 0, delay |-> 0, table |-> [id \in ReqIds |-> 0],
   heartbeatTimer |-> FALSE, intervals |-> 0]

\* A frame the control plane wrote to the bridge's connection. obj names the
\* approval whose resolution produced it (bookkeeping, not on the wire).
ResponseFrame(id, approved, o) == [requestId |-> id, approved |-> approved, obj |-> o]

RECURSIVE ToBridge(_, _, _)
\* ws.send on socket s, as far as it reaches the bridge: the approval_response
\* frames in a handler's effects that were written to socket s
ToBridge(fx, s, o) ==
  IF fx = <<>> THEN <<>>
  ELSE LET f == Head(fx) IN
       IF f[1] = "onResolved" THEN ToBridge(Tail(fx), s, f[2])
       ELSE IF f[1] = "send" /\ f[2] = s /\ s # NoSock
       THEN <<ResponseFrame(f[4], f[5], o)>> \o ToBridge(Tail(fx), s, o)
       ELSE ToBridge(Tail(fx), s, o)

\* a disconnect that leaves the heartbeat running
StopHeartbeat_Keep(b) == b

\* stopHeartbeat(): if (this.heartbeatTimer) { clearInterval(...); = null }.
\* heartbeatTimer: the field holds a timer; intervals: the setInterval timers
\* the bridge has armed and not cleared
StopHeartbeat(b) ==
  IF b.heartbeatTimer THEN [b EXCEPT !.heartbeatTimer = FALSE, !.intervals = @ - 1] ELSE b

\* startHeartbeat(): this.stopHeartbeat(); this.heartbeatTimer = setInterval(...)
StartHeartbeat(b) ==
  [StopHeartbeat(b) EXCEPT !.heartbeatTimer = TRUE, !.intervals = @ + 1]

\* The server accepts (or refuses) the bridge's dial: the upgrade handler runs
\* on the request MoltAgentBridge.connect built
Accept ==
  /\ bridge.ws = "connecting" /\ bridge.peer = NoSock
  /\ Upgrade(TRUE, NullTok, SomeTok(<<Bearer>> \o authToken), SomeId(Worker))
  /\ bridge' = IF last'.ret = "admitted"
               THEN [bridge EXCEPT !.peer = agents'[Worker]]
               ELSE [bridge EXCEPT !.ws = "refused"]
  /\ UNCHANGED <<promises, down, provVars>>

\* this.ws.on("open")
BridgeOpen ==
  /\ bridge.ws = "connecting" /\ bridge.peer # NoSock
  /\ bridge' = StartHeartbeat([bridge EXCEPT !.ws = "open", !.attempt = 0])
  /\ UNCHANGED <<promises, down, serverVars>>

\* Math.min(a, b)
MathMin(a, b) == IF a <= b THEN a ELSE b

\* the delay without the cap
Backoff_Uncapped(n) == BaseDelay * 2 ^ (n - 1)

\* Math.min(1000 * 2 ** (this.reconnectAttempt - 1), this.maxReconnectDelay)
Backoff(n) == MathMin(BaseDelay * 2 ^ (n - 1), maxReconnectDelay)

\* scheduleReconnect that does not look at this.closed
ScheduleReconnect_Always(b) ==
  [b EXCEPT !.reconnect = TRUE, !.attempt = @ + 1, !.delay = Backoff(b.attempt + 1)]

\* scheduleReconnect: if (this.closed) return; this.reconnectAttempt++;
\* setTimeout(() => this.connect(), delay)
ScheduleReconnect(b) ==
  IF b.closed THEN b
  ELSE [b EXCEPT !.reconnect = TRUE, !.attempt = @ + 1, !.delay = Backoff(b.attempt + 1)]

\* this.ws.on("close"): the connection is gone (closed by either side, refused,
\* or the transport died); frames not yet read are lost
BridgeCloseEvent ==
  /\ bridge.ws \in {"connecting", "open", "refused", "closing"}
  /\ bridge.closed \/ bridge.attempt < MaxAttempts
  /\ bridge' = ScheduleReconnect(StopHeartbeat([bridge EXCEPT !.ws = "none", !.peer = NoSock]))
  /\ down' = <<>>
  /\ UNCHANGED <<promises, serverVars>>

\* connect() that does not look at this.closed
Connect_Always(b) == [b EXCEPT !.ws = "connecting", !.peer = NoSock]

\* connect(): if (this.closed) return; this.ws = new WebSocket(url, ...)
Connect(b) == IF b.closed THEN b ELSE [b EXCEPT !.ws = "connecting", !.peer = NoSock]

\* The reconnect timer fires: setTimeout(() => this.connect(), delay)
ReconnectTimer ==
  /\ bridge.reconnect
  /\ bridge' = Connect([bridge EXCEPT !.reconnect = FALSE])
  /\ down' = IF bridge'.ws = "connecting" THEN <<>> ELSE down
  /\ UNCHANGED <<promises, serverVars>>

\* MoltAgentBridge.close(): closed = true; this.ws?.close(); this.ws = null.
\* The old socket object keeps its handlers until its close event.
BridgeClose ==
  /\ ~bridge.closed
  /\ bridge' = StopHeartbeat([bridge EXCEPT !.closed = TRUE,
                                !.ws = IF @ \in {"connecting", "open"} THEN "closing" ELSE @])
  /\ UNCHANGED <<promises, down, serverVars>>

\* this.send(msg) puts a frame on the wire: only if ws.readyState is OPEN
CanSend == bridge.ws = "open"

\* The frame reaches the message handler of the bridge's server-side socket
Reaches ==
  /\ CanSend /\ bridge.peer # NoSock
  /\ sock[bridge.peer].readyState \in {"OPEN", "CLOSING"}
  /\ sock[bridge.peer].agentId = Worker

\* a heartbeat interval fires: sendHeartbeat() -> send(), which writes the
\* frame only on an open socket; the control plane then handles it
SendHeartbeat ==
  /\ bridge.intervals > 0
  /\ IF Reaches /\ sock[bridge.peer].readyState = "OPEN"
     THEN HandleFrame(bridge.peer, "heartbeat") /\ UNCHANGED provVars
     ELSE UNCHANGED serverVars
  /\ UNCHANGED workerVars

\* a handler that resolves with deny whatever the response says
Settle_Deny(p, approved) ==
  [p EXCEPT !.state = IF @ = "pending" THEN "denied" ELSE @, !.resolves = @ + 1]

\* resolve(v) of a completion: only the first call settles it
Settle(p, approved) ==
  [p EXCEPT !.state = IF @ = "pending" THEN (IF approved THEN "approved" ELSE "denied") ELSE @,
            !.resolves = @ + 1]

\* cleanup() that leaves the handler in the table
Cleanup_Keep(b, c) == b

\* cleanup() of call c: clearTimeout(timeout); this.pendingApprovals.delete(request.id)
Cleanup(b, c) == [b EXCEPT !.table[promises[c].id] = 0]

\* requestApproval(request), the part that runs in the worker: the completion
\* is created with its 5-minute timer, the handler is registered under
\* request.id (replacing any handler already there), the frame is sent
\* o is the approval the control plane creates from the frame (0: none;
\* bookkeeping)
RequestApproval(id, o) ==
  /\ Len(promises) < MaxObjs
  /\ promises' = Append(promises, [id |-> id, state |-> "pending", timer |-> TRUE,
                                   resolves |-> 0, obj |-> o])
  /\ bridge' = [bridge EXCEPT !.table[id] = Len(promises) + 1]
  /\ UNCHANGED down

\* requestApproval whose approval_request frame arrives at the control plane:
\* handleAgentMessage -> approvals.addRequest(agentId, msg.request)
RequestDelivered(id, expiresAt) ==
  /\ Reaches
  /\ AddRequest(sock[bridge.peer].agentId, id, expiresAt)
  /\ RequestApproval(id, last'.ret)
  /\ UNCHANGED provVars

\* requestApproval whose frame is not sent (the socket is not open) or is lost
\* with the connection
RequestLost(id) ==
  /\ RequestApproval(id, 0)
  /\ UNCHANGED serverVars

\* this.ws.on("message") -> onCommand -> bridge.handleMessage(msg) for the
\* oldest unread frame: the handler registered under msg.requestId, if any,
\* runs cleanup() and resolve(msg.approved)
BridgeReceive ==
  /\ bridge.ws \in {"open", "closing"}
  /\ down # <<>>
  /\ LET f == Head(down)
         c == bridge.table[f.requestId] IN
     /\ down' = Tail(down)
     /\ IF c = 0
        THEN UNCHANGED <<bridge, promises>>
        ELSE /\ promises' = [promises EXCEPT ![c] = [Settle(@, f.approved) EXCEPT !.timer = FALSE]]
             /\ bridge' = Cleanup(bridge, c)
  /\ UNCHANGED serverVars

\* The 5-minute timer of call c fires: cleanup(); resolve(false)
Timeout(c) ==
  /\ c \in 1..Len(promises)
  /\ promises[c].timer
  /\ promises' = [promises EXCEPT ![c] = [Settle(@, FALSE) EXCEPT !.timer = FALSE]]
  /\ bridge' = Cleanup(bridge, c)
  /\ UNCHANGED <<down, serverVars>>

\* POST /approvals/:id/respond: approvals.resolve (whose onResolved callback
\* relays the decision), then controlPlane.sendApprovalResponse once more
DashboardRespond(id, approved) ==
  /\ Resolve(id, approved, "dashboard")
  /\ down' = down \o ToBridge(last'.fx, bridge.peer, 0)
                  \o IF last'.ret = 0 THEN <<>>
                     ELSE ToBridge(ApprovalResponseSent(appr'[last'.ret].agentId, id, approved),
                                   bridge.peer, last'.ret)
  /\ UNCHANGED <<bridge, promises, provVars>>

\* moltagent approve / deny on the command line: approvals.resolve(id, .., "cli")
CliResolve(id, approved) ==
  /\ Resolve(id, approved, "cli")
  /\ down' = down \o ToBridge(last'.fx, bridge.peer, 0)
  /\ UNCHANGED <<bridge, promises, provVars>>

\* The expiry timer, with what its onResolved relays reaching the bridge
ExpiryScan ==
  /\ ExpireStale
  /\ down' = down \o ToBridge(last'.fx, bridge.peer, 0)
  /\ UNCHANGED <<bridge, promises, provVars>>

\* -------------------------------------------------- MoltAgentProvisioner
\* this.instances.get(agentId) === undefined
NoInstance == [present |-> FALSE]
\* the VpsInstance a provider's create returned: its provider name and the id
\* the provider assigned
Instance(pn, iid) == [present |-> TRUE, provider |-> pn, id |-> iid]

\* the provider registry after registerProvider(hetzner), registerProvider(docker-local)
Providers == {"hetzner", "docker-local"}
\* const defaultProvider = hetznerToken ? "hetzner" : "docker-local"
defaultProvider == "hetzner"

\* provision that takes the default provider whatever the manifest names
ProviderName_Default(p) == defaultProvider

\* manifest.resources.provider || this.defaultProvider
ProviderName(p) == IF p # "" THEN p ELSE defaultProvider

\* getProvider(name) !== undefined
GetProvider(name) == name \in Providers

\* `Unknown VPS provider: ${providerName}. Available: ${listProviders().join(", ")}`
UnknownProvider(name) == [error |-> "unknown provider", name |-> name, available |-> Providers]

\* a call suspended at its provider call, and the slots that hold such calls
Slots == 1..MaxPend
Idle == [kind |-> "idle"]
FreeSlots == {k \in Slots : pend[k] = Idle}
FreeSlot == CHOOSE k \in FreeSlots : \A j \in FreeSlots : k <= j

\* --------------------------------------------------- HTTP management surface
\* req.headers as the gateway hands them over: the keys authorization and
\* Authorization, each possibly absent
Headers(lo, up) == [lower |-> lo, upper |-> up]

\* req.headers.authorization ?? req.headers.Authorization ?? ""
HttpAuth(h) == IF h.lower.some THEN h.lower.v ELSE IF h.upper.some THEN h.upper.v ELSE <<>>

\* a check that accepts any Bearer header
CheckAuth_AnyBearer(h) == HttpAuth(h) # <<>> /\ Head(HttpAuth(h)) = Bearer

\* checkAuth: auth === `Bearer ${authToken}`
CheckAuth(h) == HttpAuth(h) = <<Bearer>> \o authToken

\* sendToAgent without the readyState test
SendToAgent_AnyState(a, type) ==
  IF agents[a] # NoSock THEN << <<"send", agents[a], type>> >> ELSE <<>>

\* ControlPlaneServer.sendToAgent(agentId, msg): what is written to which
\* socket; it returns true exactly when something is written
SendToAgent(a, type) ==
  IF agents[a] # NoSock /\ sock[agents[a]].readyState = "OPEN"
  THEN << <<"send", agents[a], type>> >>
  ELSE <<>>

\* the handler answers: { status, body }
Answer(req, status, fx) == last' = [op |-> "http", arg |-> req, ret |-> status, fx |-> fx]

\* fleet.registerAgent(manifest, instance) inside a handler
FleetRegister(a) ==
  /\ fleet' = RegisterAgentRecord(fleet, a)
  /\ acct' = [acct EXCEPT ![a] = RegisterAcct(fleet[a].present, acct[a], now)]
  /\ fm' = MarkDirty(fm)
  /\ UNCHANGED tally

\* fleet.removeAgent(agentId) inside a handler
FleetRemove(a) ==
  /\ fleet' = [fleet EXCEPT ![a] = NoRecord]
  /\ acct' = [acct EXCEPT ![a] = NoAcct]
  /\ tally' = [tally EXCEPT ![a].counted = 0, ![a].spend = 0]
  /\ fm' = IF fleet[a].present THEN MarkDirty(fm) ELSE fm

FleetSame == UNCHANGED <<fleet, acct, tally, fm>>

\* provisioner.provision(manifest, script) up to `await provider.create(...)`,
\* called by POST /agents of the dashboard (via "dashboard") or of the gateway
\* API (via "api"). An unknown provider is answered at once: 500.
Provision(via, req) ==
  LET pn == ProviderName(req.p) IN
  /\ UNCHANGED <<cpVars, apprVars, now, disk, workerVars, prov, cloud, generated>>
  /\ FleetSame
  /\ IF ~GetProvider(pn)
     THEN /\ UNCHANGED pend
          /\ Answer(req, 500, << <<"error", UnknownProvider(pn)>> >>)
     ELSE /\ FreeSlots # {}
          /\ pend' = [pend EXCEPT ![FreeSlot] =
                        [kind |-> "create", via |-> via, agent |-> req.agent,
                         provider |-> pn, id |-> 0]]
          /\ Answer(req, "pending", << <<"create", pn, req.agent>> >>)

\* provider.create answers for the call in slot k: { success: true, instance }
\* or { success: false, error }. provision indexes the instance on success; the
\* dashboard then registers the agent and answers 201, the gateway API answers
\* 201; on failure both answer 500.
CreateReply(k, ok) ==
  /\ pend[k].kind = "create"
  /\ ok => cloud.made < MaxInstances
  /\ LET c == pend[k]
         iid == cloud.made + 1 IN
     /\ pend' = [pend EXCEPT ![k] = Idle]
     /\ IF ok
        THEN /\ prov' = [prov EXCEPT ![c.agent] = Instance(c.provider, iid)]
             /\ cloud' = [made |-> iid, live |-> cloud.live \cup {iid},
                          owner |-> Append(cloud.owner, c.agent)]
             /\ IF c.via = "dashboard" THEN FleetRegister(c.agent) ELSE FleetSame
             /\ last' = [op |-> "reply", arg |-> <<c, ok>>, ret |-> 201,
                         fx |-> << <<"set", c.agent, iid>> >>]
        ELSE /\ UNCHANGED <<prov, cloud>>
             /\ FleetSame
             /\ last' = [op |-> "reply", arg |-> <<c, ok>>, ret |-> 500, fx |-> <<>>]
  /\ UNCHANGED <<cpVars, apprVars, now, disk, workerVars, generated>>

\* DELETE /agents/:id up to `await provider.destroy(instance.id)`. The
\* dashboard first sends shutdown to the worker. provisioner.destroy answers
\* at once when the id is not indexed: the dashboard then removes the fleet
\* record and answers 200, the gateway API answers 500.
Destroy(via, req) ==
  LET a == req.agent
      sent == IF via = "dashboard" THEN SendToAgent(a, "shutdown") ELSE <<>> IN
  /\ UNCHANGED <<cpVars, apprVars, now, disk, workerVars, prov, cloud, generated>>
  /\ IF ~prov[a].present
     THEN /\ UNCHANGED pend
          /\ IF via = "dashboard" THEN FleetRemove(a) ELSE FleetSame
          /\ Answer(req, IF via = "dashboard" THEN 200 ELSE 500,
                    sent \o << <<"error", "No instance found">> >>)
     ELSE /\ FreeSlots # {}
          /\ FleetSame
          /\ pend' = [pend EXCEPT ![FreeSlot] =
                        [kind |-> "destroy", via |-> via, agent |-> a,
                         provider |-> prov[a].provider, id |-> prov[a].id]]
          /\ Answer(req, "pending", sent \o << <<"destroy", prov[a].provider, prov[a].id>> >>)

\* a destroy that drops the index entry whatever the provider answered
InstancesDelete_Always(p, a, ok) == [p EXCEPT ![a] = NoInstance]

\* if (result.success) this.instances.delete(agentId)
InstancesDelete(p, a, ok) == IF ok THEN [p EXCEPT ![a] = NoInstance] ELSE p

\* provider.destroy answers for the call in slot k: { success: true } or
\* { success: false, error }. provisioner.destroy deletes the index entry of
\* the agent id on success. The dashboard then removes the fleet record and
\* answers 200 whatever the result; the gateway API answers 200 or 500.
DestroyReply(k, ok) ==
  /\ pend[k].kind = "destroy"
  /\ LET c == pend[k] IN
     /\ pend' = [pend EXCEPT ![k] = Idle]
     /\ prov' = InstancesDelete(prov, c.agent, ok)
     /\ cloud' = IF ok THEN [cloud EXCEPT !.live = @ \ {c.id}] ELSE cloud
     /\ IF c.via = "dashboard" THEN FleetRemove(c.agent) ELSE FleetSame
     /\ last' = [op |-> "reply", arg |-> <<c, ok>>,
                 ret |-> IF c.via = "dashboard" \/ ok THEN 200 ELSE 500,
                 fx |-> (IF ok THEN << <<"delete", c.agent>> >> ELSE <<>>)
                        \o (IF c.via = "dashboard" THEN << <<"removeAgent", c.agent>> >> ELSE <<>>)]
  /\ UNCHANGED <<cpVars, apprVars, now, disk, workerVars, generated>>

\* ------------------------------------------------------- provider status
\* server.status as the Hetzner Cloud API reports it
HetznerStates ==
  {"initializing", "starting", "running", "stopping", "off", "deleting", "migrating",
   "rebuilding", "unknown"}
\* {{.State.Status}} as docker inspect prints it
DockerStates == {"created", "restarting", "running", "removing", "paused", "exited", "dead"}

\* mapHetznerStatus(s)
MapHetznerStatus(s) ==
  CASE s \in {"initializing", "starting"} -> "creating"
    [] s = "running" -> "running"
    [] s = "stopping" -> "stopping"
    [] s = "off" -> "stopped"
    [] OTHER -> "error"

\* docker-local status: status === "running" ? "running" : "stopped"
DockerLocalStatus(s) == IF s = "running" THEN "running" ELSE "stopped"

\* the lifecycle states a provider can report, and VpsInstance.status as its
\* status() returns it
ProviderStates(pn) == IF pn = "hetzner" THEN HetznerStates ELSE DockerStates
ProviderStatus(pn, s) == IF pn = "hetzner" THEN MapHetznerStatus(s) ELSE DockerLocalStatus(s)

\* GET /moltagent/agents/:id up to `await provider.status(instance.id)`:
\* provisioner.getStatus returns null at once when the id is not indexed, and
\* the route answers 404
GetStatus(req) ==
  LET a == req.agent IN
  /\ UNCHANGED <<cpVars, apprVars, now, disk, workerVars, prov, cloud, generated>>
  /\ FleetSame
  /\ IF ~prov[a].present
     THEN /\ UNCHANGED pend
          /\ Answer(req, 404, <<>>)
     ELSE /\ FreeSlots # {}
          /\ pend' = [pend EXCEPT ![FreeSlot] =
                        [kind |-> "status", via |-> "api", agent |-> a,
                         provider |-> prov[a].provider, id |-> prov[a].id]]
          /\ Answer(req, "pending", << <<"status", prov[a].provider, prov[a].id>> >>)

\* provider.status answers for the call in slot k: null (found = FALSE: the
\* request failed or the instance is gone) or the instance in the lifecycle
\* state raw. getStatus stores the instance it got under the agent id and
\* returns it; on null it returns the instance it had read from the index.
StatusReply(k, found, raw) ==
  /\ pend[k].kind = "status"
  /\ raw \in ProviderStates(pend[k].provider)
  /\ LET c == pend[k] IN
     /\ pend' = [pend EXCEPT ![k] = Idle]
     /\ prov' = IF found THEN [prov EXCEPT ![c.agent] = Instance(c.provider, c.id)] ELSE prov
     /\ last' = [op |-> "reply", arg |-> <<c, found, raw>>, ret |-> 200,
                 fx |-> IF found
                        THEN << <<"set", c.agent, c.id>>,
                                <<"status", ProviderStatus(c.provider, raw)>> >>
                        ELSE <<>>]
  /\ FleetSame
  /\ UNCHANGED <<cpVars, apprVars, now, disk, workerVars, cloud, generated>>

\* the dashboard's commands to a worker, with the frame type each relays
Commands == {"message", "goals", "knowledge", "restart"}
CommandType(route) ==
  CASE route = "message" -> "send_message"
    [] route = "goals" -> "update_goals"
    [] route = "knowledge" -> "inject_knowledge"
    [] route = "restart" -> "restart"

\* POST /agents/:id/message | goals | knowledge | restart: 400 on a body
\* without content / goals / documents (restart reads no body), else
\* sendToAgent and 200 or 503
Command(req) ==
  /\ UNCHANGED <<cpVars, apprVars, now, disk, workerVars, provVars>>
  /\ FleetSame
  /\ IF req.body = "bad" /\ req.route # "restart"
     THEN Answer(req, 400, <<>>)
     ELSE LET sent == SendToAgent(req.agent, CommandType(req.route)) IN
          Answer(req, IF sent # <<>> THEN 200 ELSE 503, sent)

\* a request answered without touching anything
Refuse(req, status) ==
  /\ Answer(req, status, <<>>)
  /\ FleetSame
  /\ UNCHANGED <<cpVars, apprVars, now, disk, workerVars, provVars>>

\* the handler createDashboardApi returns, for one request
DashboardApi(req) ==
  IF ~CheckAuth(req.h) THEN Refuse(req, 401)
  ELSE IF req.route = "get" THEN Refuse(req, 200)
  ELSE IF req.route = "deploy"
       THEN IF req.body = "bad" THEN Refuse(req, 400) ELSE Provision("dashboard", req)
  ELSE IF req.route = "delete" THEN Destroy("dashboard", req)
  ELSE IF req.route \in Commands THEN Command(req)
  ELSE IF req.route = "respond"
       THEN IF req.body = "bad" THEN Refuse(req, 400)
            ELSE DashboardRespond(req.id, req.approved)
  ELSE Refuse(req, 404)

\* the handler createApiHandler returns, for one request
ApiHandler(req) ==
  IF ~CheckAuth(req.h) THEN Refuse(req, 401)
  ELSE IF req.route = "deploy"
       THEN IF req.body = "bad" THEN Refuse(req, 400) ELSE Provision("api", req)
  ELSE IF req.route = "delete" THEN Destroy("api", req)
  ELSE IF req.route = "get" THEN GetStatus(req)
  ELSE Refuse(req, 404)

\* ------------------------------------------------------------ cloud-init
\* JSON.stringify(manifest), and Buffer.from(json).toString("base64")
JsonStringify(m) == [json |-> m]
Base64(s) == [base64 |-> s]

RECURSIVE ReplaceFirst(_, _, _)
\* String.prototype.replace(piece, with): replaces the first occurrence only
ReplaceFirst(str, piece, with) ==
  IF str = <<>> THEN <<>>
  ELSE IF Head(str) = piece THEN <<with>> \o Tail(str)
  ELSE <<Head(str)>> \o ReplaceFirst(Tail(str), piece, with)

\* String.prototype.replace(/\/ws$/, "")
DropWsSuffix(str) ==
  IF str # <<>> /\ str[Len(str)] = "/ws" THEN SubSeq(str, 1, Len(str) - 1) ELSE str

\* manifest.controlPlane.url.replace("wss://", "https://").replace("ws://", "http://")
\*   .replace(/\/ws$/, "")
ControlPlaneUrl(url) ==
  DropWsSuffix(ReplaceFirst(ReplaceFirst(url, "wss://", "https://"), "ws://", "http://"))

\* new Date().toISOString() at the instant t
ToISOString(t) == [iso |-> t]

\* generateCloudInit(manifest), called at the instant t: the text it returns,
\* as the values it interpolates into the fixed template, in template order
GenerateCloudInit(manifest, t) ==
  [agent |-> <<manifest.name, manifest.id>>,
   generatedAt |-> ToISOString(t),
   pythonInstall |-> Len(manifest.pipPackages) > 0,
   chromeInstall |-> manifest.webBrowsing,
   pipPkgs |-> IF Len(manifest.pipPackages) # 0
               THEN <<"pip3 install">> \o manifest.pipPackages ELSE <<>>,
   manifestB64 |-> Base64(JsonStringify(manifest)),
   gatewayPort |-> gatewayPort,
   serviceId |-> manifest.id,
   controlPlaneUrl |-> ControlPlaneUrl(manifest.url),
   statusPath |-> manifest.id,
   token |-> manifest.token]

\* one call of generateCloudInit(manifest), as POST /agents and the CLI's
\* provision make it before they provision
CloudInitCall(manifest) ==
  /\ Len(generated) < MaxScripts
  /\ generated' = Append(generated, [manifest |-> manifest,
                                     script |-> GenerateCloudInit(manifest, now)])
  /\ last' = [op |-> "cloudInit", arg |-> manifest,
              ret |-> GenerateCloudInit(manifest, now), fx |-> <<>>]
  /\ UNCHANGED <<cpVars, apprVars, now, fleet, storeVars, workerVars, prov, cloud, pend>>

\* ------------------------------------------------------------------ inputs
\* What a worker's bridge dials with: ?agentId=<id>, Authorization: Bearer <token>
BridgeDial(a) == <<NullTok, SomeTok(<<Bearer, "T">>), SomeId(a)>>
\* The same with the token in the query string
QueryDial(a) == <<SomeTok(authToken), NullTok, SomeId(a)>>
\* A dial with a wrong token
WrongTokenDial(a) == <<SomeTok(<<"X">>), NullTok, SomeId(a)>>
Dials == {BridgeDial(a) : a \in AgentIds} \cup {QueryDial(a) : a \in AgentIds}
          \cup {WrongTokenDial(1)}

\* new FleetManager(storagePath) on the file a previous run left: records that
\* were deployed at 0 and have logged nothing yet
StoreInit ==
  /\ acct = [a \in AgentIds |-> IF fleet[a].present THEN RegisterAcct(FALSE, NoAcct, 0) ELSE NoAcct]
  /\ tally = [a \in AgentIds |-> [calls |-> 0, errors |-> 0, counted |-> 0, spend |-> 0]]
  /\ disk = IF \E a \in AgentIds : fleet[a].present THEN Save(fleet, acct) ELSE MissingFile
  /\ fm = [dirty |-> FALSE, timer |-> TRUE]

\* new MoltAgentProvisioner(defaultProvider): the index is empty, no call is
\* in flight
ProvInit ==
  /\ prov = [a \in AgentIds |-> NoInstance]
  /\ cloud = [made |-> 0, live |-> {}, owner |-> <<>>]
  /\ pend = [k \in Slots |-> Idle]
  /\ generated = <<>>

\* the worker process has started and its bridge is dialling
WorkerInit ==
  /\ bridge = NewBridge
  /\ promises = <<>>
  /\ down = <<>>

Init ==
  /\ sock = [s \in Sockets |-> FreshSock]
  /\ agents = [a \in AgentIds |-> NoSock]
  /\ listening = TRUE
  /\ mode \in {"attach", "standalone"}
  /\ fleet \in LoadedFleets
  /\ appr = <<>>
  /\ queue = <<>>
  /\ history = [recent |-> <<>>, older |-> 0]
  /\ nHist = 0
  /\ timerOn = TRUE
  /\ now = 0
  /\ last = [op |-> "init", arg |-> <<>>, ret |-> "", fx |-> <<>>]
  /\ StoreInit
  /\ WorkerInit
  /\ ProvInit

\* The control plane on its own: the worker's variables stay as they are
Next ==
  \/ \E d \in Dials : Upgrade(TRUE, d[1], d[2], d[3]) /\ UNCHANGED <<workerVars, provVars>>
  \/ \E d \in Dials : StandaloneConnection(TRUE, d[1], d[2], d[3]) /\ UNCHANGED <<workerVars, provVars>>
  \/ \E s \in Sockets : PeerClose(s) /\ UNCHANGED <<workerVars, provVars>>
  \/ \E s \in Sockets : CloseEvent(s) /\ UNCHANGED <<workerVars, provVars>>
  \/ \E s \in Sockets, type \in {"heartbeat"} : HandleFrame(s, type) /\ UNCHANGED <<workerVars, provVars>>
  \/ CpClose /\ UNCHANGED <<workerVars, provVars>>
  \/ \E a \in AgentIds : RegisterAgent(a) /\ UNCHANGED <<workerVars, provVars>>
  \/ \E a \in AgentIds : RemoveAgent(a) /\ UNCHANGED <<workerVars, provVars>>

\* first start on a storage path that holds no file yet: the fleet is empty
\* and records come from registerAgent
InitFresh == Init /\ disk = MissingFile

Spec == InitFresh /\ [][Next]_vars

\* ------------------------------------------- the approval manager on its own
\* expiresAt as workers send it: two instants and a string that is no date
ExpiryInputs == {DateString(0), DateString(1), InvalidDate}
\* the dashboard approves, the CLI denies
Decisions == {<<TRUE, "dashboard">>, <<FALSE, "cli">>}
\* the worker whose requests the manager is driven with
Requester == CHOOSE a \in AgentIds : \A b \in AgentIds : a <= b

InitApprovals == InitFresh /\ mode = "attach"

NextApprovals ==
  \/ \E id \in ReqIds, e \in ExpiryInputs : AddRequest(Requester, id, e) /\ UNCHANGED <<workerVars, provVars>>
  \/ \E id \in ReqIds, d \in Decisions : Resolve(id, d[1], d[2]) /\ UNCHANGED <<workerVars, provVars>>
  \/ ExpireStale /\ UNCHANGED <<workerVars, provVars>>
  \/ Tick /\ UNCHANGED <<workerVars, provVars>>

SpecApprovals == InitApprovals /\ [][NextApprovals]_vars

\* ------------------------- the approval manager with its history nearly full
\* maxHistory - 1 approvals were resolved earlier; their entries lie in history
InitHistory ==
  /\ sock = [s \in Sockets |-> FreshSock]
  /\ agents = [a \in AgentIds |-> NoSock]
  /\ listening = TRUE
  /\ mode = "attach"
  /\ fleet = [a \in AgentIds |-> NoRecord]
  /\ appr = <<>>
  /\ queue = <<>>
  /\ history = [recent |-> <<>>, older |-> maxHistory - 1]
  /\ nHist = maxHistory - 1
  /\ timerOn = TRUE
  /\ now = 0
  /\ last = [op |-> "init", arg |-> <<>>, ret |-> "", fx |-> <<>>]
  /\ StoreInit
  /\ WorkerInit
  /\ ProvInit

NextHistory ==
  \/ \E id \in ReqIds, e \in {DateString(0), InvalidDate} : AddRequest(Requester, id, e) /\ UNCHANGED <<workerVars, provVars>>
  \/ \E id \in ReqIds, d \in Decisions : Resolve(id, d[1], d[2]) /\ UNCHANGED <<workerVars, provVars>>
  \/ ExpireStale /\ UNCHANGED <<workerVars, provVars>>
  \/ Tick /\ UNCHANGED <<workerVars, provVars>>

SpecHistory == InitHistory /\ [][NextHistory]_vars

\* ------------------------------------------------ one worker and the fleet
\* msg.action of the "action" frames a worker sends: no action field at all,
\* an entry of another category, and spend entries whose details.amount is
\* absent, 3, -2, "3" and true
ActionInputs ==
  {NoAction, ActionEntry("other", NumAmount(3)), ActionEntry("spend", NoAmount),
   ActionEntry("spend", NumAmount(3)), ActionEntry("spend", NumAmount(-2)),
   ActionEntry("spend", StrAmount(3)), ActionEntry("spend", TrueAmount)}

\* the process is started on the gateway, on a storage path with no file yet
InitFleet == InitFresh /\ mode = "attach"

\* One run of the process: the worker's sessions and frames, the operator's
\* registrations and removals
NextFleet ==
  \/ Upgrade(TRUE, BridgeDial(Worker)[1], BridgeDial(Worker)[2], BridgeDial(Worker)[3])
       /\ UNCHANGED <<workerVars, provVars>>
  \/ \E s \in Sockets : PeerClose(s) /\ UNCHANGED <<workerVars, provVars>>
  \/ \E s \in Sockets : CloseEvent(s) /\ UNCHANGED <<workerVars, provVars>>
  \/ \E s \in Sockets : HandleFrame(s, "heartbeat") /\ UNCHANGED <<workerVars, provVars>>
  \/ \E s \in Sockets, action \in ActionInputs : ActionFrame(s, action) /\ UNCHANGED <<workerVars, provVars>>
  \/ \E s \in Sockets : ErrorFrame(s) /\ UNCHANGED <<workerVars, provVars>>
  \/ RegisterAgent(Worker) /\ UNCHANGED <<workerVars, provVars>>
  \/ RemoveAgent(Worker) /\ UNCHANGED <<workerVars, provVars>>

SpecFleet == InitFleet /\ [][NextFleet]_vars

\* Registrations over time: the clock advances between the operator's
\* registrations and removals, while the worker logs spend actions and errors
NextRegister ==
  \/ Upgrade(TRUE, BridgeDial(Worker)[1], BridgeDial(Worker)[2], BridgeDial(Worker)[3])
       /\ UNCHANGED <<workerVars, provVars>>
  \/ \E s \in Sockets : PeerClose(s) /\ UNCHANGED <<workerVars, provVars>>
  \/ \E s \in Sockets : CloseEvent(s) /\ UNCHANGED <<workerVars, provVars>>
  \/ \E s \in Sockets : ActionFrame(s, ActionEntry("spend", NumAmount(3))) /\ UNCHANGED <<workerVars, provVars>>
  \/ \E s \in Sockets : ErrorFrame(s) /\ UNCHANGED <<workerVars, provVars>>
  \/ RegisterAgent(Worker) /\ UNCHANGED <<workerVars, provVars>>
  \/ RemoveAgent(Worker) /\ UNCHANGED <<workerVars, provVars>>
  \/ Tick /\ UNCHANGED <<workerVars, provVars>>

SpecRegister == InitFleet /\ [][NextRegister]_vars

\* --------------------------------------- a record whose rings are nearly full
\* The file the process starts on holds the worker's record with
\* MAX_RECENT_ACTIONS - 1 actions and MAX_RECENT_ERRORS - 1 errors logged by
\* earlier runs; load brings it back offline
FullRecord ==
  [totalActions |-> MAX_RECENT_ACTIONS - 1, totalSpend |-> 0,
   recentActions |-> [recent |-> <<>>, older |-> MAX_RECENT_ACTIONS - 1],
   recentErrors |-> [recent |-> <<>>, older |-> MAX_RECENT_ERRORS - 1],
   deployedAt |-> 0]

InitRings ==
  /\ sock = [s \in Sockets |-> FreshSock]
  /\ agents = [a \in AgentIds |-> NoSock]
  /\ listening = TRUE
  /\ mode = "attach"
  /\ fleet = [a \in AgentIds |->
               IF a = Worker THEN [present |-> TRUE, connection |-> "offline"] ELSE NoRecord]
  /\ appr = <<>>
  /\ queue = <<>>
  /\ history = [recent |-> <<>>, older |-> 0]
  /\ nHist = 0
  /\ timerOn = TRUE
  /\ now = 0
  /\ last = [op |-> "init", arg |-> <<>>, ret |-> "", fx |-> <<>>]
  /\ acct = [a \in AgentIds |-> IF a = Worker THEN FullRecord ELSE NoAcct]
  /\ tally = [a \in AgentIds |-> [calls |-> 0, errors |-> 0, counted |-> 0, spend |-> 0]]
  /\ disk = Save(fleet, acct)
  /\ fm = [dirty |-> FALSE, timer |-> TRUE]
  /\ WorkerInit
  /\ ProvInit

NextRings ==
  \/ Upgrade(TRUE, BridgeDial(Worker)[1], BridgeDial(Worker)[2], BridgeDial(Worker)[3])
       /\ UNCHANGED <<workerVars, provVars>>
  \/ \E s \in Sockets : PeerClose(s) /\ UNCHANGED <<workerVars, provVars>>
  \/ \E s \in Sockets : CloseEvent(s) /\ UNCHANGED <<workerVars, provVars>>
  \/ \E s \in Sockets, action \in {NoAction, ActionEntry("other", NoAmount)} :
       ActionFrame(s, action) /\ UNCHANGED <<workerVars, provVars>>
  \/ \E s \in Sockets : ErrorFrame(s) /\ UNCHANGED <<workerVars, provVars>>
  \/ RegisterAgent(Worker) /\ UNCHANGED <<workerVars, provVars>>

SpecRings == InitRings /\ [][NextRings]_vars

\* ------------------------------------------------- the fleet across restarts
\* A record as save() wrote it while its worker was connected: one spend
\* action logged, connection "online"
StoredFleet ==
  [a \in AgentIds |-> IF a = Worker THEN [present |-> TRUE, connection |-> "online"] ELSE NoRecord]
StoredAcct ==
  [a \in AgentIds |->
     IF a = Worker
     THEN [totalActions |-> 1, totalSpend |-> 3,
           recentActions |-> [recent |-> << [seq |-> 1, json |-> "object"] >>, older |-> 0],
           recentErrors |-> EmptyRing, deployedAt |-> 0]
     ELSE NoAcct]

\* What the process can find at storagePath when it starts: no file, a file
\* that is not JSON, a snapshot of another version, a snapshot save() wrote
StartFiles ==
  {MissingFile, CorruptFile, Snapshot(2, StoredFleet, StoredAcct), Save(StoredFleet, StoredAcct)}

\* new FleetManager(storagePath): load() on the file found there
InitPersist ==
  /\ sock = [s \in Sockets |-> FreshSock]
  /\ agents = [a \in AgentIds |-> NoSock]
  /\ listening = TRUE
  /\ mode = "attach"
  /\ disk \in StartFiles
  /\ fleet = Load(disk).fleet
  /\ acct = Load(disk).acct
  /\ appr = <<>>
  /\ queue = <<>>
  /\ history = [recent |-> <<>>, older |-> 0]
  /\ nHist = 0
  /\ timerOn = TRUE
  /\ now = 0
  /\ last = [op |-> "init", arg |-> <<>>, ret |-> "", fx |-> <<>>]
  /\ tally = [a \in AgentIds |-> [calls |-> 0, errors |-> 0, counted |-> 0, spend |-> 0]]
  /\ fm = [dirty |-> FALSE, timer |-> TRUE]
  /\ WorkerInit
  /\ ProvInit

\* The process runs until close(); nothing touches the fleet between close()
\* and the next start
Running == fm.timer

NextPersist ==
  \/ Running /\ Upgrade(TRUE, BridgeDial(Worker)[1], BridgeDial(Worker)[2], BridgeDial(Worker)[3])
       /\ UNCHANGED <<workerVars, provVars>>
  \/ Running /\ (\E s \in Sockets : PeerClose(s)) /\ UNCHANGED <<workerVars, provVars>>
  \/ Running /\ (\E s \in Sockets : CloseEvent(s)) /\ UNCHANGED <<workerVars, provVars>>
  \/ Running /\ (\E s \in Sockets, action \in {NoAction, ActionEntry("spend", NumAmount(3))} :
                    ActionFrame(s, action)) /\ UNCHANGED <<workerVars, provVars>>
  \/ Running /\ RegisterAgent(Worker) /\ UNCHANGED <<workerVars, provVars>>
  \/ Running /\ RemoveAgent(Worker) /\ UNCHANGED <<workerVars, provVars>>
  \/ SaveTick /\ UNCHANGED <<workerVars, provVars>>
  \/ FleetClose /\ UNCHANGED <<workerVars, provVars>>
  \/ Restart /\ UNCHANGED <<workerVars, provVars>>

SpecPersist == InitPersist /\ [][NextPersist]_vars

\* ---------------------------------- one worker's bridge and the control plane
\* The worker asks for approvals over its bridge; the operator answers on the
\* dashboard or the command line; the expiry timer and the clock run
InitBridge == InitFresh /\ mode = "attach"

\* request.id of the worker's next request: its caller numbers the requests,
\* so no id is used twice
NextId == Len(promises) + 1

NextBridge ==
  \/ Accept
  \/ BridgeOpen
  \/ BridgeCloseEvent
  \/ BridgeClose
  \/ \E s \in Sockets : PeerClose(s) /\ UNCHANGED <<workerVars, provVars>>
  \/ \E s \in Sockets : CloseEvent(s) /\ UNCHANGED <<workerVars, provVars>>
  \/ NextId \in ReqIds /\ RequestDelivered(NextId, DateString(1))
  \/ NextId \in ReqIds /\ RequestLost(NextId)
  \/ \E id \in ReqIds, approved \in BOOLEAN : DashboardRespond(id, approved)
  \/ BridgeReceive
  \/ \E c \in 1..MaxObjs : Timeout(c)

SpecBridge == InitBridge /\ [][NextBridge]_vars

\* A frame that has arrived is read, and the 5-minute timer of every call
\* fires unless it was cleared
SpecBridgeFair ==
  /\ SpecBridge
  /\ WF_vars(BridgeReceive)
  /\ \A c \in 1..MaxObjs : WF_vars(Timeout(c))

\* ------------------------------------------------ frames that are malformed
\* data that JSON.parse rejects, JSON without a type, JSON with a type no case
\* of handleAgentMessage matches
MalformedTypes == {"unparseable", "no type", "unknown type"}

\* The worker's sessions carry malformed frames only; its well-formed approval
\* requests are taken as already parsed; the operator registers the agent
NextFrames ==
  \/ Upgrade(TRUE, BridgeDial(Worker)[1], BridgeDial(Worker)[2], BridgeDial(Worker)[3])
       /\ UNCHANGED <<workerVars, provVars>>
  \/ \E s \in Sockets : PeerClose(s) /\ UNCHANGED <<workerVars, provVars>>
  \/ \E s \in Sockets : CloseEvent(s) /\ UNCHANGED <<workerVars, provVars>>
  \/ RegisterAgent(Worker) /\ UNCHANGED <<workerVars, provVars>>
  \/ \E s \in Sockets, id \in ReqIds :
       /\ sock[s].readyState \in {"OPEN", "CLOSING"}
       /\ AddRequest(sock[s].agentId, id, DateString(1))
       /\ UNCHANGED <<workerVars, provVars>>
  \/ \E s \in Sockets, type \in MalformedTypes : HandleFrame(s, type) /\ UNCHANGED <<workerVars, provVars>>
  \/ \E s \in Sockets : ActionFrame(s, NoAction) /\ UNCHANGED <<workerVars, provVars>>
  \/ \E s \in Sockets : RequestFrameNoPayload(s) /\ UNCHANGED <<workerVars, provVars>>

SpecFrames == InitFleet /\ [][NextFrames]_vars

\* -------------------------------------------------- the management surface
\* Authorization headers as clients send them: the exact one under either
\* key, none, a wrong token, the token without "Bearer ", the token with a
\* suffix, and a wrong lower-case key next to the right upper-case one
GoodAuth == SomeTok(<<Bearer>> \o authToken)
GoodHeaders == {Headers(GoodAuth, NullTok), Headers(NullTok, GoodAuth)}
BadHeaders ==
  {Headers(NullTok, NullTok),
   Headers(SomeTok(<<Bearer, "X">>), NullTok),
   Headers(SomeTok(authToken), NullTok),
   Headers(SomeTok(<<Bearer>> \o authToken \o <<"X">>), NullTok),
   Headers(SomeTok(<<Bearer, "X">>), GoodAuth)}

\* a request: its route, headers, the agent id in its path or manifest, the
\* provider its manifest names, whether its body passes the route's
\* validation, and for /approvals/:id/respond the id and the decision
Request(route, h, a, p, body, id, approved) ==
  [route |-> route, h |-> h, agent |-> a, p |-> p, body |-> body, id |-> id,
   approved |-> approved]

\* manifest.resources.provider as deployed: not set, a registered name, an
\* unregistered name
ProviderInputs == {"", "docker-local", "aws"}

\* the requests of an operator who holds the token
DeployRequests ==
  {Request("deploy", Headers(GoodAuth, NullTok), Worker, p, "ok", 0, FALSE) : p \in ProviderInputs}
    \cup {Request("deploy", Headers(GoodAuth, NullTok), Worker, "", "bad", 0, FALSE)}
DeleteRequests == {Request("delete", Headers(GoodAuth, NullTok), Worker, "", "ok", 0, FALSE)}
CommandRequests ==
  {Request(r, Headers(GoodAuth, NullTok), Worker, "", "ok", 0, FALSE) : r \in Commands}
    \cup {Request("message", Headers(GoodAuth, NullTok), Worker, "", "bad", 0, FALSE)}

\* the operator deploys and deletes one agent through the dashboard and the
\* gateway API; provider calls take their time and succeed or fail
NextManage ==
  \/ \E req \in DeployRequests \cup DeleteRequests : DashboardApi(req)
  \/ \E req \in DeployRequests \cup DeleteRequests : ApiHandler(req)
  \/ \E k \in Slots, ok \in BOOLEAN : CreateReply(k, ok)
  \/ \E k \in Slots, ok \in BOOLEAN : DestroyReply(k, ok)

SpecManage == InitFleet /\ [][NextManage]_vars

\* the operator deploys one agent through the dashboard and deletes it again
\* while its worker connects and disconnects
NextDelete ==
  \/ Upgrade(TRUE, BridgeDial(Worker)[1], BridgeDial(Worker)[2], BridgeDial(Worker)[3])
       /\ UNCHANGED <<workerVars, provVars>>
  \/ \E s \in Sockets : PeerClose(s) /\ UNCHANGED <<workerVars, provVars>>
  \/ \E s \in Sockets : CloseEvent(s) /\ UNCHANGED <<workerVars, provVars>>
  \/ DashboardApi(Request("deploy", Headers(GoodAuth, NullTok), Worker, "", "ok", 0, FALSE))
  \/ \E req \in DeleteRequests : DashboardApi(req)
  \/ \E k \in Slots, ok \in BOOLEAN : CreateReply(k, ok)
  \/ \E k \in Slots, ok \in BOOLEAN : DestroyReply(k, ok)

SpecDelete == InitFleet /\ [][NextDelete]_vars

\* the operator sends commands to one agent through the dashboard while its
\* worker connects, is replaced and disconnects, and the agent is registered
\* and removed
NextCommands ==
  \/ Upgrade(TRUE, BridgeDial(Worker)[1], BridgeDial(Worker)[2], BridgeDial(Worker)[3])
       /\ UNCHANGED <<workerVars, provVars>>
  \/ \E s \in Sockets : PeerClose(s) /\ UNCHANGED <<workerVars, provVars>>
  \/ \E s \in Sockets : CloseEvent(s) /\ UNCHANGED <<workerVars, provVars>>
  \/ RegisterAgent(Worker) /\ UNCHANGED <<workerVars, provVars>>
  \/ RemoveAgent(Worker) /\ UNCHANGED <<workerVars, provVars>>
  \/ CpClose /\ UNCHANGED <<workerVars, provVars>>
  \/ \E req \in CommandRequests : DashboardApi(req)

SpecCommands == InitFleet /\ [][NextCommands]_vars

\* requests that arrive without the token's header, on every kind of route:
\* deploy, delete, read, command, approval response, and a path no route has
OpenRoutes == {"deploy", "delete", "get", "message", "restart", "respond", "nowhere"}
\* the id of the approval the worker asks for
AskedId == CHOOSE id \in ReqIds : \A j \in ReqIds : id <= j
UnauthorizedRequests ==
  {Request(r, h, Worker, "", "ok", AskedId, TRUE) : r \in OpenRoutes, h \in BadHeaders}

\* an agent is deployed, its worker connects and asks for approvals; requests
\* without the right header reach the dashboard and the gateway API
NextAuth ==
  \/ Upgrade(TRUE, BridgeDial(Worker)[1], BridgeDial(Worker)[2], BridgeDial(Worker)[3])
       /\ UNCHANGED <<workerVars, provVars>>
  \/ AddRequest(Worker, AskedId, DateString(1)) /\ UNCHANGED <<workerVars, provVars>>
  \/ \E h \in GoodHeaders : DashboardApi(Request("deploy", h, Worker, "", "ok", 0, FALSE))
  \/ \E k \in Slots : CreateReply(k, TRUE)
  \/ \E req \in UnauthorizedRequests : DashboardApi(req)
  \/ \E req \in UnauthorizedRequests : ApiHandler(req)

SpecAuth == InitFleet /\ [][NextAuth]_vars

\* ------------------------------------------------- bootstrap scripts
\* the manifests scripts are generated for: each agent id with its name, with
\* and without web browsing and pip packages, with a wss:// URL that ends in
\* /ws and a ws:// URL that does not
Manifests ==
  {[id |-> a, name |-> <<"agent", a>>, webBrowsing |-> w, pipPackages |-> pip,
    url |-> u, token |-> authToken] :
     a \in AgentIds, w \in BOOLEAN, pip \in {<<>>, <<"numpy">>},
     u \in {<<"wss://", "hub", "/ws">>, <<"ws://", "hub">>}}

\* scripts are generated while the clock runs
NextCloudInit ==
  \/ \E m \in Manifests : CloudInitCall(m)
  \/ Tick /\ UNCHANGED <<workerVars, provVars>>

SpecCloudInit == InitFleet /\ [][NextCloudInit]_vars

\* ------------------------------------------------- instance status
\* an agent is deployed on either provider through the gateway API and its
\* status is read while its instances go through their lifecycle
StatusRequests == {Request("get", Headers(GoodAuth, NullTok), Worker, "", "ok", 0, FALSE)}
NextStatus ==
  \/ \E p \in {"", "docker-local"} :
       ApiHandler(Request("deploy", Headers(GoodAuth, NullTok), Worker, p, "ok", 0, FALSE))
  \/ \E k \in Slots : CreateReply(k, TRUE)
  \/ \E req \in StatusRequests : ApiHandler(req)
  \/ \E k \in Slots, found \in BOOLEAN, raw \in HetznerStates \cup DockerStates :
       StatusReply(k, found, raw)

SpecStatus == InitFleet /\ [][NextStatus]_vars

\* ------------------------------------------------- the bridge's reconnect loop
\* The worker's bridge dials, opens, loses its connection and dials again,
\* until close(); the control plane admits each dial and sees sockets close
NextReconnect ==
  \/ Accept
  \/ BridgeOpen
  \/ BridgeCloseEvent
  \/ ReconnectTimer
  \/ BridgeClose
  \/ \E s \in Sockets : PeerClose(s) /\ UNCHANGED <<workerVars, provVars>>
  \/ \E s \in Sockets : CloseEvent(s) /\ UNCHANGED <<workerVars, provVars>>

SpecReconnect == InitBridge /\ [][NextReconnect]_vars

\* the same loop with the heartbeat intervals firing
NextHeartbeat ==
  \/ NextReconnect
  \/ SendHeartbeat

SpecHeartbeat == InitBridge /\ [][NextHeartbeat]_vars

\* ------------------------------------------------ frames that name an agent
\* another agent of the fleet
Other == CHOOSE a \in AgentIds : a # Worker

\* The frames of the AgentMessage union, each carrying an agentId field: the
\* id its session was admitted for, or another agent's
Messages ==
  [type : {"heartbeat", "status", "action", "error", "approval_request"},
   agentId : {Worker, Other},
   action : {ActionEntry("spend", NumAmount(3))},
   request : {1}]

\* The operator registers two agents; the worker of one of them connects and
\* its session carries frames under either agent id
NextSessions ==
  \/ Upgrade(TRUE, BridgeDial(Worker)[1], BridgeDial(Worker)[2], BridgeDial(Worker)[3])
       /\ UNCHANGED <<workerVars, provVars>>
  \/ \E a \in {Worker, Other} : RegisterAgent(a) /\ UNCHANGED <<workerVars, provVars>>
  \/ \E s \in Sockets, msg \in Messages : OnMessage(s, msg) /\ UNCHANGED <<workerVars, provVars>>

SpecSessions == InitFleet /\ [][NextSessions]_vars

\* ------------------------------------------------ a worker that reuses an id
\* The caller of requestApproval chooses request.id: here it may use an id
\* again, while the operator answers on the command line or the dashboard
NextReuse ==
  \/ Accept
  \/ BridgeOpen
  \/ BridgeCloseEvent
  \/ \E s \in Sockets : PeerClose(s) /\ UNCHANGED <<workerVars, provVars>>
  \/ \E s \in Sockets : CloseEvent(s) /\ UNCHANGED <<workerVars, provVars>>
  \/ \E id \in ReqIds : RequestDelivered(id, DateString(1))
  \/ \E id \in ReqIds, approved \in BOOLEAN : CliResolve(id, approved)
  \/ \E id \in ReqIds, approved \in BOOLEAN : DashboardRespond(id, approved)
  \/ BridgeReceive
  \/ \E c \in 1..MaxObjs : Timeout(c)

SpecReuse == InitBridge /\ [][NextReuse]_vars

\* ------------------------------------------- approvals that run into their expiry
\* The same worker and control plane with the clock and the expiry timer
\* running, until the approval manager is closed
NextExpiry ==
  \/ Accept
  \/ BridgeOpen
  \/ BridgeCloseEvent
  \/ \E s \in Sockets : PeerClose(s) /\ UNCHANGED <<workerVars, provVars>>
  \/ \E s \in Sockets : CloseEvent(s) /\ UNCHANGED <<workerVars, provVars>>
  \/ \E e \in ExpiryInputs : NextId \in ReqIds /\ RequestDelivered(NextId, e)
  \/ \E id \in ReqIds : DashboardRespond(id, TRUE)
  \/ ExpiryScan
  \/ timerOn /\ ApprovalsClose /\ UNCHANGED <<workerVars, provVars>>
  \/ Tick /\ UNCHANGED <<workerVars, provVars>>
  \/ BridgeReceive
  \/ \E c \in 1..MaxObjs : Timeout(c)

\* The interval timer of the approval manager keeps firing while it is armed,
\* the clock advances, a frame that has arrived is read, and the 5-minute
\* timer of every call fires unless it was cleared
SpecBridgeLive ==
  /\ InitBridge
  /\ [][NextExpiry]_vars
  /\ WF_vars(ExpiryScan)
  /\ WF_vars(Tick /\ UNCHANGED <<workerVars, provVars>>)
  /\ WF_vars(BridgeReceive)
  /\ \A c \in 1..MaxObjs : WF_vars(Timeout(c))

\* ===================================================================== claims
OpenSockets(a) == {s \in Sockets : sock[s].readyState = "OPEN" /\ sock[s].agentId = a}

\* C1: in every reachable state each agent id has at most one admitted socket
\* that is still open, and an open socket is the one the session index holds
\* for its agent id.
C1_AtMostOneLiveSession ==
  \A a \in AgentIds :
    /\ Cardinality(OpenSockets(a)) <= 1
    /\ \A s \in OpenSockets(a) : agents[a] = s

\* C1 witness: an agent's socket was replaced; the old one is still closing with
\* code 4000 while the new one is open and indexed.
C1_Witness ==
  \E a \in AgentIds : \E s \in Sockets :
    /\ sock[s].agentId = a /\ sock[s].readyState = "CLOSING"
    /\ sock[s].sentCode = CodeReplaced
    /\ agents[a] # NoSock /\ agents[a] # s
    /\ sock[agents[a]].readyState = "OPEN"

Admitted(l) == l.op = "connect" /\ l.ret = "admitted"

\* C2: a connection admitted for an agent id with an indexed session issues
\* close(4000) on the previous socket before the index is rewritten; afterwards
\* the previous socket is no longer open (4000 is the code it was sent if it
\* was open) and the index holds the new, open socket.
C2_ReplacementClosesPrevious ==
  [][\A a \in AgentIds :
       (Admitted(last') /\ last'.arg.aid.v = a /\ agents[a] # NoSock) =>
         LET old == agents[a] IN
         /\ sock'[old].readyState # "OPEN"
         /\ sock[old].readyState = "OPEN" => sock'[old].sentCode = CodeReplaced
         /\ sock'[old].agentId = a
         /\ agents'[a] # NoSock /\ agents'[a] # old
         /\ sock[agents'[a]].readyState = "NEW"
         /\ sock'[agents'[a]] = [agentId |-> a, readyState |-> "OPEN", sentCode |-> 0]
         /\ Len(last'.fx) = 3
         /\ last'.fx[1] = <<"close", old, CodeReplaced>>
         /\ last'.fx[2] = <<"set", a, agents'[a]>>]_vars

\* C2 witness: the session of an agent that was connected has just been replaced.
C2_Witness ==
  /\ Admitted(last)
  /\ Len(last.fx) = 3
  /\ \E s \in Sockets :
       /\ sock[s].agentId = last.arg.aid.v
       /\ sock[s].readyState = "CLOSING" /\ sock[s].sentCode = CodeReplaced
       /\ agents[last.arg.aid.v] # s

\* C3: processing a socket's close event removes the session and marks the
\* record offline exactly when that socket is the indexed session of its agent
\* id; the close event of any other socket changes neither index nor fleet.
C3_CloseOnlyOwnSession ==
  [][\A s \in Sockets :
       (sock[s].readyState = "CLOSING" /\ sock'[s].readyState = "NEW") =>
         LET a == sock[s].agentId IN
         IF agents[a] = s
         THEN /\ agents' = [agents EXCEPT ![a] = NoSock]
              /\ fleet[a].present => fleet'[a].connection = "offline"
              /\ \A b \in AgentIds \ {a} : fleet'[b] = fleet[b]
         ELSE /\ agents' = agents
              /\ fleet' = fleet]_vars

\* C3 witness: a worker's transport died, the worker reconnected before the
\* server saw the close, and the late close event of the old socket has now
\* been processed: the new session is still indexed, open, and online.
C3_Witness ==
  /\ last.op = "closeEvent" /\ last.ret = "stale"
  /\ last.arg[3] = 0
  /\ LET a == last.arg[2] IN
     /\ agents[a] # NoSock
     /\ sock[agents[a]].readyState = "OPEN"
     /\ fleet[a].present /\ fleet[a].connection = "online"

\* "presents the configured shared token, either as an Authorization: Bearer
\* header or as the ?token= query parameter, together with a non-empty ?agentId="
PresentsCredentials(in) ==
  /\ \/ in.q = SomeTok(authToken)
     \/ in.h = SomeTok(<<Bearer>> \o authToken)
  /\ in.aid.some /\ in.aid.v # 0

\* C4: while the server accepts connections, a connection is registered as a
\* session if and only if it presents the shared token (header or query) and a
\* non-empty agent id, in the attached and in the standalone mode alike; a
\* rejected connection changes no session, fleet or approval state.
C4_AdmittedIffCredentials ==
  [][(last'.op = "connect" /\ listening) =>
       /\ Admitted(last') <=> PresentsCredentials(last'.arg)
       /\ ~Admitted(last') => UNCHANGED <<sock, agents, fleet, apprVars>>]_vars

\* C5: a record whose connection is online has an indexed session.
C5_OnlineImpliesSession ==
  \A a \in AgentIds :
    (fleet[a].present /\ fleet[a].connection = "online") => agents[a] # NoSock

Objects == 1..Len(appr)
Terminal == {"approved", "denied", "expired"}
InSeq(sq, x) == \E i \in 1..Len(sq) : sq[i] = x
\* the queue holds a pending entry under this request id
HasPending(id) == \E i \in 1..Len(queue) : appr[queue[i]].id = id /\ appr[queue[i]].state = "pending"

\* C6: an approval's state changes only from pending to approved, denied or
\* expired, and a record in a terminal state is never changed again, whatever
\* resolve, the expiry scan or addRequest do afterwards.
C6_TerminalIsFinal ==
  [][/\ Len(appr') >= Len(appr)
     /\ \A o \in Objects :
          /\ appr'[o].state # appr[o].state =>
               appr[o].state = "pending" /\ appr'[o].state \in Terminal
          /\ appr[o].state \in Terminal => appr'[o] = appr[o]]_vars

\* C6 witness: a request id was resolved and then resolve was tried on it again
\* (and refused), with the record of the first decision standing.
C6_Witness ==
  /\ last.op = "resolve" /\ last.ret = 0
  /\ \E o \in Objects :
       /\ appr[o].id = last.arg[1]
       /\ appr[o].state = "approved"
       /\ last.arg[2] = FALSE
       /\ InSeq(history.recent, o)

\* C7: once an approval id has been resolved or expired (it has an entry in
\* history), getApproval and getPending return no entry with that id.
C7_ResolvedIdNeverQueued ==
  \A i \in 1..Len(history.recent) :
    LET id == appr[history.recent[i]].id IN
    /\ GetApproval(id) = 0
    /\ \A o \in GetPending : appr[o].id # id

Min(x, y) == IF x <= y THEN x ELSE y

\* C8: history never holds more than maxHistory entries and is newest first:
\* the k-th most recently resolved or expired approval is at index k, and only
\* the oldest entries are missing once more than maxHistory were inserted.
C8_HistoryBoundedNewestFirst ==
  /\ HistoryLength(history) <= maxHistory
  /\ HistoryLength(history) = Min(nHist, maxHistory)
  /\ \A i \in 1..Len(history.recent) : appr[history.recent[i]].histSeq = nHist - i + 1
  /\ \A o \in Objects :
       appr[o].state \in Terminal =>
         LET k == nHist - appr[o].histSeq + 1 IN
         /\ k >= 1
         /\ k <= maxHistory => (k <= Len(history.recent) /\ history.recent[k] = o)
         /\ k > maxHistory => ~InSeq(history.recent, o)

\* C8 witness: more approvals were resolved than history can hold, so the oldest
\* entries were dropped, and two of the entries still held were inserted in turn.
C8_Witness ==
  /\ nHist > maxHistory
  /\ HistoryLength(history) = maxHistory
  /\ Len(history.recent) >= 2
  /\ \E o \in Objects : appr[o].state = "expired"

\* C9: resolve on an id with no pending entry in the queue (never added, or
\* already resolved or expired) returns none, leaves queue, history and every
\* record as they were, and does not invoke onResolved; no resolve changes a
\* record that already carries a decision.
C9_ResolveMissingIsNoOp ==
  [][last'.op = "resolve" =>
       /\ ~HasPending(last'.arg[1]) =>
            /\ last'.ret = 0
            /\ last'.fx = <<>>
            /\ UNCHANGED <<appr, queue, history, nHist>>
       /\ \A o \in Objects : appr[o].state \in Terminal => appr'[o] = appr[o]]_vars

\* C9 witness: the same id was resolved twice with opposite decisions; the
\* second call returned none and the first decision is the one on record.
C9_Witness ==
  /\ last.op = "resolve" /\ last.ret = 0 /\ last.arg[2] = TRUE
  /\ GetApproval(last.arg[1]) = 0
  /\ Len(history.recent) = 1
  /\ appr[history.recent[1]].id = last.arg[1]
  /\ appr[history.recent[1]].state = "denied"
  /\ appr[history.recent[1]].respondedBy = "cli"

\* how many times onResolved was invoked for object o by the last handler
OnResolvedCount(fx, o) ==
  Cardinality({i \in 1..Len(fx) : fx[i][1] = "onResolved" /\ fx[i][2] = o})

\* C10: a record becomes expired only in the expiry scan, only from pending and
\* only when the clock has passed its expiresAt; each entry the scan expires
\* leaves the queue, is in history and is reported through onResolved exactly
\* once; every other queued entry is left as it was, in its place.
C10_ExpiryScan ==
  [][/\ \A o \in Objects :
          (appr'[o].state = "expired" /\ appr[o].state # "expired") =>
            /\ last'.op = "expireStale"
            /\ appr[o].state = "pending"
            /\ appr[o].expiresAt.valid /\ appr[o].expiresAt.ms < now
            /\ InSeq(queue, o) /\ ~InSeq(queue', o)
            /\ InSeq(history'.recent, o)
            /\ OnResolvedCount(last'.fx, o) = 1
     /\ last'.op = "expireStale" =>
          /\ \A o \in Objects :
               (InSeq(queue, o) /\ ~(appr[o].expiresAt.valid /\ appr[o].expiresAt.ms < now)) =>
                 /\ appr'[o] = appr[o]
                 /\ InSeq(queue', o)
                 /\ OnResolvedCount(last'.fx, o) = 0
          /\ \A o \in Objects : ~InSeq(queue, o) =>
               appr'[o] = appr[o] /\ OnResolvedCount(last'.fx, o) = 0
          /\ \A i, j \in 1..Len(queue') :
               i < j => \E k, l \in 1..Len(queue) :
                          k < l /\ queue[k] = queue'[i] /\ queue[l] = queue'[j]]_vars

\* C10 witness: one scan expired a due entry and left an entry that is due
\* exactly now (expiresAt = now, not yet passed) pending in the queue.
C10_Witness ==
  /\ last.op = "expireStale"
  /\ \E o \in Objects : appr[o].state = "expired" /\ OnResolvedCount(last.fx, o) = 1
  /\ \E i \in 1..Len(queue) :
       /\ appr[queue[i]].state = "pending"
       /\ appr[queue[i]].expiresAt = DateString(now)

\* ------------------------------------------------------- fleet accounting
\* C14 as stated: the totalActions of a record equals the number of
\* recordAction calls ever made for its agent id
C14_TotalActionsCountsEveryCall ==
  \A a \in AgentIds : fleet[a].present => acct[a].totalActions = tally[a].calls

\* C14, amended: within one run of the process the totalActions of a record
\* equals the number of recordAction calls made for its agent id since the
\* record was created; registering again, connecting and disconnecting leave
\* it alone, and a call made while the id has no record is never counted
C14_TotalActionsCountsRecordedCalls ==
  \A a \in AgentIds : fleet[a].present => acct[a].totalActions = tally[a].counted

\* a record that has counted an action is registered again while a session of
\* its worker has come and gone
C14_Witness ==
  /\ last.op = "registerAgent"
  /\ fleet[Worker].present
  /\ acct[Worker].totalActions >= 1
  /\ agents[Worker] = NoSock

\* C15: the totalSpend of a record equals the sum of details.amount over its
\* recorded actions of category spend whose amount is numeric; every other
\* action contributes nothing
C15_TotalSpendIsSumOfNumericSpend ==
  \A a \in AgentIds : fleet[a].present => acct[a].totalSpend = tally[a].spend

\* C17: no fleet operation and no inbound frame makes the totalActions or the
\* totalSpend of a record smaller
C17_CountersNeverDecrease ==
  [][\A a \in AgentIds :
       fleet[a].present /\ fleet'[a].present =>
         /\ acct'[a].totalActions >= acct[a].totalActions
         /\ acct'[a].totalSpend >= acct[a].totalSpend]_vars

\* C18: registerAgent for an id that already has a record leaves the record's
\* totalActions, totalSpend, recentActions, recentErrors and deployedAt as
\* they are, deployedAt being stamped by the first registration only; and a
\* connect or a disconnect (so a reconnect after a dropped session) leaves
\* totalActions and the other accounting fields as they are
C18_ReRegistrationPreservesAccounting ==
  [][/\ (\A a \in AgentIds :
           fleet[a].present /\ last'.op = "registerAgent" /\ last'.arg = a =>
             /\ acct'[a].totalActions = acct[a].totalActions
             /\ acct'[a].totalSpend = acct[a].totalSpend
             /\ acct'[a].recentActions = acct[a].recentActions
             /\ acct'[a].recentErrors = acct[a].recentErrors
             /\ acct'[a].deployedAt = acct[a].deployedAt)
     /\ (\A a \in AgentIds :
           ~fleet[a].present /\ last'.op = "registerAgent" /\ last'.arg = a =>
             acct'[a].deployedAt = now)
     /\ (last'.op \in {"connect", "peerClose", "closeEvent"} => acct' = acct)]_vars

\* a record deployed earlier, with an action, a spend and an error on it, has
\* just been registered again at a later time, after its session dropped
C18_Witness ==
  /\ last.op = "registerAgent" /\ last.arg = Worker
  /\ fleet[Worker].present
  /\ acct[Worker].deployedAt < now
  /\ acct[Worker].totalActions >= 1
  /\ acct[Worker].totalSpend > 0
  /\ HistoryLength(acct[Worker].recentErrors) >= 1
  /\ agents[Worker] = NoSock

\* the entries spelled out in ring r are in call order, newest first
NewestFirst(r) ==
  \A i \in 1..Len(r.recent) - 1 : r.recent[i].seq > r.recent[i + 1].seq

\* ring new is ring old after logging the call stamped n under capacity cap:
\* the entry is at index 0, the earlier entries follow in their order, and only
\* the oldest one is gone if the ring was full
Pushed(old, new, n, cap) ==
  /\ new.recent # <<>> /\ new.recent[1].seq = n
  /\ HistoryLength(new) = Min(HistoryLength(old) + 1, cap)
  /\ Tail(new.recent) \o [i \in 1..new.older |-> 0]
       = SubSeq(old.recent \o [i \in 1..old.older |-> 0], 1, HistoryLength(new) - 1)

\* C16: the recent-actions ring of a record never holds more than
\* MAX_RECENT_ACTIONS entries and its recent-errors ring never more than
\* MAX_RECENT_ERRORS; both are newest first, and logging into a full ring
\* discards the oldest entry only
C16_RingsBoundedNewestFirst ==
  /\ [](\A a \in AgentIds : fleet[a].present =>
          /\ HistoryLength(acct[a].recentActions) <= MAX_RECENT_ACTIONS
          /\ HistoryLength(acct[a].recentErrors) <= MAX_RECENT_ERRORS
          /\ NewestFirst(acct[a].recentActions)
          /\ NewestFirst(acct[a].recentErrors))
  /\ [][last'.op = "frame" /\ fleet[last'.arg[2]].present =>
          LET a == last'.arg[2] IN
          /\ last'.arg[3] = "action" =>
               Pushed(acct[a].recentActions, acct'[a].recentActions,
                      tally'[a].calls, MAX_RECENT_ACTIONS)
          /\ last'.arg[3] = "error" =>
               Pushed(acct[a].recentErrors, acct'[a].recentErrors,
                      tally'[a].errors, MAX_RECENT_ERRORS)]_vars

\* more actions were logged than the ring holds: it is at its capacity, the
\* last two calls are at its front and the oldest entry is gone
C16_Witness ==
  /\ fleet[Worker].present
  /\ HistoryLength(acct[Worker].recentActions) = MAX_RECENT_ACTIONS
  /\ acct[Worker].totalActions > MAX_RECENT_ACTIONS
  /\ Len(acct[Worker].recentActions.recent) >= 2
  /\ acct[Worker].recentActions.recent[1].seq = tally[Worker].calls

C20_RestartSurvival ==
  [][last'.op = "restart" =>
       \A a \in AgentIds :
         /\ fleet'[a].present = fleet[a].present
         /\ fleet[a].present =>
              /\ fleet'[a].connection = "offline"
              /\ acct'[a].totalActions = acct[a].totalActions
              /\ acct'[a].totalSpend = acct[a].totalSpend
              /\ acct'[a].recentActions = JsonRing(acct[a].recentActions)
              /\ acct'[a].recentErrors = JsonRing(acct[a].recentErrors)]_vars

\* ------------------------------------------------ approvals over the bridge
Flag(approved) == IF approved THEN "approved" ELSE "denied"

\* the worker's session: admitted, indexed and open at both ends
SessionOpen ==
  /\ bridge.ws = "open" /\ bridge.peer # NoSock
  /\ agents[Worker] = bridge.peer
  /\ sock[bridge.peer].readyState = "OPEN"

\* this step is the bridge reading the oldest unread frame
IsReceive == down # <<>> /\ down' = Tail(down) /\ bridge'.ws = bridge.ws

\* this step is POST /approvals/:id/respond resolving approval o
IsRespond(o) ==
  /\ last'.op = "resolve" /\ last'.arg[3] = "dashboard" /\ last'.ret = o
  /\ o \in 1..Len(appr) /\ appr[o].state = "pending" /\ appr'[o].state # "pending"

\* C11: when the operator resolves the worker's pending request R through
\* POST /approvals/R/respond the approval takes the operator's decision and
\* history holds exactly one entry for it, at the front; if the worker's
\* session is open an approval_response with requestId R and the decision is
\* written to it; and when the worker reads that frame while its
\* requestApproval completion is pending, the completion resolves to the
\* decision. A frame written to a session that stays up is eventually read.
C11_ApprovalRoundTrip ==
  /\ [][\A o \in 1..MaxObjs : IsRespond(o) =>
          LET id == last'.arg[1]
              d  == last'.arg[2] IN
          /\ appr'[o].id = id /\ appr'[o].state = Flag(d)
          /\ history'.recent[1] = o
          /\ Cardinality({i \in 1..Len(history'.recent) : history'.recent[i] = o}) = 1
          /\ SessionOpen =>
               /\ Len(down') > Len(down)
               /\ down'[Len(down) + 1] = ResponseFrame(id, d, o)]_vars
  /\ [][IsReceive =>
          \A c \in 1..Len(promises) :
            (promises[c].obj = Head(down).obj /\ promises[c].obj # 0
               /\ promises[c].state = "pending") =>
              /\ promises'[c].state = Flag(Head(down).approved)
              /\ promises'[c].state = appr[promises[c].obj].state]_vars
  /\ \A n \in 1..(2 * MaxObjs) :
       (Len(down) = n) ~> (Len(down) < n \/ bridge.ws \notin {"open", "closing", "connecting"})

\* the operator approved the worker's request on the dashboard, the worker has
\* read the response and its completion resolved to approve
C11_Witness ==
  \E c \in 1..Len(promises) :
    /\ promises[c].state = "approved"
    /\ promises[c].obj # 0
    /\ appr[promises[c].obj].state = "approved"
    /\ appr[promises[c].obj].respondedBy = "dashboard"
    /\ history.recent # <<>>

\* C13: a requestApproval completion is resolved at most once and, since its
\* timer fires even when the bridge is disconnected or closed, eventually:
\* by the first approval_response read whose requestId is the call's id, with
\* that response's approved flag, or by the 5-minute timer, with deny. A
\* response whose requestId has no pending call changes nothing. The table
\* holds the call's handler exactly while the completion is pending.
C13_CompletionResolvesOnce ==
  /\ [](\A c \in 1..Len(promises) :
          /\ promises[c].resolves <= 1
          /\ (promises[c].state = "pending") = (promises[c].resolves = 0)
          /\ (promises[c].state = "pending") = (bridge.table[promises[c].id] = c)
          /\ (promises[c].state = "pending") = promises[c].timer)
  /\ [][\A c \in 1..Len(promises) :
          /\ promises'[c].state # promises[c].state =>
               /\ promises[c].state = "pending"
               /\ \/ /\ IsReceive /\ Head(down).requestId = promises[c].id
                        /\ promises'[c].state = Flag(Head(down).approved)
                  \/ /\ ~IsReceive /\ down' = down
                        /\ promises'[c].state = "denied"
          /\ (IsReceive /\ Head(down).requestId = promises[c].id
                /\ promises[c].state = "pending") =>
               promises'[c].state = Flag(Head(down).approved)]_vars
  /\ [][(IsReceive /\ \A c \in 1..Len(promises) :
                        promises[c].state = "pending" => promises[c].id # Head(down).requestId)
          => (promises' = promises /\ bridge' = bridge)]_vars
  /\ \A c \in 1..MaxObjs :
       (c <= Len(promises)) ~> (c <= Len(promises) /\ promises[c].state # "pending")

\* one call was resolved by the response that answered it and the duplicate
\* of that response was dropped; another call, made while the bridge was not
\* connected, was resolved to deny by its timer after the bridge was closed
C13_Witness ==
  /\ bridge.closed
  /\ down = <<>>
  /\ \E c, d \in 1..Len(promises) :
       /\ promises[c].state = "approved" /\ promises[c].obj # 0
       /\ promises[d].state = "denied" /\ promises[d].obj = 0

\* C12: while the approval manager is open, a pending approval that no
\* operator resolves is eventually expired; the expiry scan that expires it
\* puts it at the front of history with state expired and, if the worker that
\* asked is connected, writes a denial (approval_response, approved false) to
\* it; and the worker's completion for an expired approval resolves to deny.
C12_ApprovalTimeout ==
  /\ \A o \in 1..MaxObjs :
       (o <= Len(appr) /\ appr[o].state = "pending")
         ~> (~(o <= Len(appr) /\ appr[o].state = "pending") \/ ~timerOn)
  /\ [][\A o \in 1..Len(appr) :
          (appr[o].state = "pending" /\ appr'[o].state = "expired") =>
            /\ \E i \in 1..Len(history'.recent) : history'.recent[i] = o
            /\ o \notin {queue'[i] : i \in 1..Len(queue')}
            /\ (SessionOpen /\ appr[o].agentId = Worker) =>
                 \E i \in (Len(down) + 1)..Len(down') :
                   down'[i] = ResponseFrame(appr[o].id, FALSE, o)]_vars
  /\ \A c \in 1..MaxObjs :
       (c <= Len(promises) /\ promises[c].obj # 0
          /\ appr[promises[c].obj].state = "expired")
         ~> (c <= Len(promises) /\ promises[c].state = "denied")
  /\ [](\A c \in 1..Len(promises) :
          (promises[c].obj # 0 /\ appr[promises[c].obj].state = "expired")
            => promises[c].state # "approved")

\* ------------------------------------------------------------ write policy
\* the snapshot on disk holds the in-memory map: the same agent ids, and for
\* each the accounting fields as JSON stores them (connection is rewritten
\* by load and is not compared)
DiskHoldsMap ==
  \A a \in AgentIds :
    /\ Load(disk).fleet[a].present = fleet[a].present
    /\ fleet[a].present => Load(disk).acct[a] = JsonAcct(acct[a])

\* C21: every step that changes a fleet record leaves the dirty flag set; the
\* dirty flag is cleared only by a step that writes the whole map to disk (the
\* 30-second timer while dirty, or close()); close() stops the timer and writes
\* exactly when dirty, and nothing is written after it; so whenever the dirty
\* flag is false the snapshot on disk holds the in-memory map.
C21_WritePolicy ==
  /\ [][((fleet' # fleet \/ acct' # acct) /\ last'.op # "restart") => fm'.dirty]_vars
  /\ [][(fm.dirty /\ ~fm'.dirty) =>
          (disk' = Save(fleet, acct) /\ fleet' = fleet /\ acct' = acct)]_vars
  /\ [][(fm.timer /\ ~fm'.timer) =>
          /\ disk' = (IF fm.dirty THEN Save(fleet, acct) ELSE disk)
          /\ ~fm'.dirty]_vars
  /\ [][(~fm.timer /\ ~fm'.timer) => disk' = disk]_vars
  /\ [](~fm.dirty => DiskHoldsMap)

\* ---------------------------------------------------------- reconnect loop
\* this step is connect() creating a socket
NewSocket == bridge'.ws = "connecting" /\ (bridge.ws # "connecting" \/ bridge.reconnect)

\* C22: once close() has been called the bridge stays closed, no step creates
\* a new socket, schedules a reconnect or counts an attempt; and closed is set
\* only by close(), which changes nothing else than closing the socket at hand
\* and clearing its heartbeat timer.
C22_NoReconnectAfterClose ==
  /\ [][bridge.closed =>
          /\ bridge'.closed
          /\ ~NewSocket
          /\ bridge'.ws \in {bridge.ws, "none"}
          /\ bridge'.attempt = bridge.attempt
          /\ bridge'.reconnect => bridge.reconnect]_vars
  /\ [][(~bridge.closed /\ bridge'.closed) =>
          /\ bridge' = StopHeartbeat([bridge EXCEPT !.closed = TRUE,
                          !.ws = IF @ \in {"connecting", "open"} THEN "closing" ELSE @])
          /\ UNCHANGED <<promises, down, serverVars>>]_vars

\* the bridge is closed after at least one disconnect: its socket is gone and
\* no reconnect timer is armed
C22_Witness ==
  /\ bridge.closed /\ ~bridge.reconnect
  /\ bridge.ws = "none"
  /\ bridge.attempt >= 1

\* C23: the delay scheduled by the n-th consecutive disconnect since the last
\* open (n >= 1) is min(1000 * 2^(n-1), 60000) ms: 1000 for the first, doubling,
\* never more than 60000; every open resets the attempt counter to 0.
C23_ReconnectBackoff ==
  /\ [][(bridge'.attempt # bridge.attempt /\ bridge'.ws # "open") =>
          /\ bridge'.attempt = bridge.attempt + 1
          /\ bridge'.reconnect
          /\ bridge'.delay =
               (CASE bridge'.attempt = 1 -> 1000 [] bridge'.attempt = 2 -> 2000
                  [] bridge'.attempt = 3 -> 4000 [] bridge'.attempt = 4 -> 8000
                  [] bridge'.attempt = 5 -> 16000 [] bridge'.attempt = 6 -> 32000
                  [] OTHER -> 60000)]_vars
  /\ [][(bridge.ws # "open" /\ bridge'.ws = "open") => bridge'.attempt = 0]_vars
  /\ [](bridge.delay <= 60000)
  /\ [](bridge.ws = "open" => bridge.attempt = 0)

\* seven disconnects in a row have brought the delay to its cap
C23_Witness ==
  /\ bridge.attempt = 7 /\ bridge.delay = 60000 /\ bridge.reconnect

\* ------------------------------------------------- control-plane shutdown
\* C26: close() on the control-plane server sends close code 1001 on every
\* indexed socket that is open and leaves none of them open, clears the
\* session index and stops the server from completing upgrades; from then on
\* the index stays empty, no socket is open and no connection attempt is
\* admitted.
C26_CloseEndsAllSessions ==
  /\ [][last'.op = "cpClose" =>
          /\ ~listening'
          /\ \A a \in AgentIds : agents'[a] = NoSock
          /\ \A a \in AgentIds : agents[a] # NoSock =>
               /\ sock'[agents[a]].readyState # "OPEN"
               /\ sock[agents[a]].readyState = "OPEN" =>
                    /\ sock'[agents[a]].readyState = "CLOSING"
                    /\ sock'[agents[a]].sentCode = CodeShutdown]_vars
  /\ [][~listening =>
          /\ ~listening'
          /\ last' # last /\ last'.op = "connect" => last'.ret # "admitted"]_vars
  /\ [](~listening =>
          /\ \A a \in AgentIds : agents[a] = NoSock
          /\ \A s \in Sockets : sock[s].readyState # "OPEN")

\* after close() a worker dialled with the right token and was turned away,
\* while a session close() shut is still closing with code 1001
C26_Witness ==
  /\ ~listening
  /\ last.op = "connect" /\ last.ret = "503"
  /\ \E s \in Sockets : sock[s].readyState = "CLOSING" /\ sock[s].sentCode = CodeShutdown

\* --------------------------------------------------------- malformed frames
\* C27: the handling of a malformed frame (unparseable, without a type, of an
\* unknown type, or of a known type without its payload) closes no session and
\* leaves the fleet records, their counters and rings, and the approval queue
\* as they were.
C27_MalformedFrameDropped ==
  [][(last'.op = "frame" /\ last' # last) =>
       /\ UNCHANGED <<fleet, acct>>
       /\ UNCHANGED <<appr, queue, history>>
       /\ UNCHANGED <<sock, agents>>]_vars

\* ------------------------------------------------------------ provisioning
\* a step in which provision(manifest, script) ran up to its provider call or
\* its early return
IsProvision == last'.op = "http" /\ last'.arg.route = "deploy" /\ last'.arg.body = "ok"
\* a step in which the provider answered the call c with success = ok
IsReply(kind, ok) == last'.op = "reply" /\ last'.arg[1].kind = kind /\ last'.arg[2] = ok

\* C24: provision uses manifest.resources.provider when it is non-empty and
\* the default provider otherwise; for an unregistered name it returns an error
\* that lists the registered providers, calls no create and leaves the index
\* as it was; the index gets an entry under manifest.identity.id exactly in
\* the step in which create answers with success.
C24_Provision ==
  /\ [][IsProvision =>
          LET req == last'.arg
              pn == IF req.p = "" THEN "hetzner" ELSE req.p IN
          /\ prov' = prov
          /\ IF pn \in {"hetzner", "docker-local"}
             THEN /\ last'.fx = << <<"create", pn, req.agent>> >>
                  /\ \E k \in Slots :
                       /\ pend[k] = Idle
                       /\ pend'[k].kind = "create" /\ pend'[k].provider = pn
                       /\ pend'[k].agent = req.agent
             ELSE /\ last'.ret = 500
                  /\ last'.fx = << <<"error", [error |-> "unknown provider", name |-> pn,
                                              available |-> {"hetzner", "docker-local"}]>> >>
                  /\ pend' = pend]_vars
  /\ [][\A a \in AgentIds :
          (prov'[a] # prov[a] /\ prov'[a].present) <=>
             (IsReply("create", TRUE) /\ last'.arg[1].agent = a)]_vars
  /\ [][IsReply("create", TRUE) =>
          /\ prov'[last'.arg[1].agent].present
          /\ prov'[last'.arg[1].agent].provider = last'.arg[1].provider]_vars
  /\ [][IsReply("create", FALSE) => prov' = prov]_vars

\* a manifest that names docker-local was provisioned there and its instance
\* is indexed under the agent's id
C24_Witness ==
  /\ last.op = "reply" /\ last.arg[1].kind = "create" /\ last.arg[2]
  /\ last.arg[1].provider = "docker-local"
  /\ prov[last.arg[1].agent].present
  /\ prov[last.arg[1].agent].provider = "docker-local"

\* a step in which destroy(agentId) ran up to its provider call or its early
\* return
IsDestroy == last'.op = "http" /\ last'.arg.route = "delete"
NotFound == <<"error", "No instance found">>

\* C25: destroy(agentId) on an id that is not indexed returns the not-found
\* error and calls no provider; on an indexed id it calls the destroy of the
\* instance's provider; the index entry is removed in the step in which the
\* provider answers with success and in no other step, and is kept when the
\* provider fails; so after a successful destroy the id is not indexed and
\* the next destroy returns not-found.
C25_Destroy ==
  /\ [][IsDestroy =>
          LET a == last'.arg.agent IN
          /\ prov' = prov
          /\ IF prov[a].present
             THEN /\ last'.fx[Len(last'.fx)] = <<"destroy", prov[a].provider, prov[a].id>>
                  /\ \E k \in Slots : pend[k] = Idle /\ pend'[k].kind = "destroy"
             ELSE /\ last'.fx[Len(last'.fx)] = NotFound
                  /\ \A i \in 1..Len(last'.fx) : last'.fx[i][1] # "destroy"
                  /\ pend' = pend]_vars
  /\ [][\A a \in AgentIds :
          (prov[a].present /\ ~prov'[a].present) =>
             (IsReply("destroy", TRUE) /\ last'.arg[1].agent = a)]_vars
  /\ [][IsReply("destroy", TRUE) => ~prov'[last'.arg[1].agent].present]_vars
  /\ [][IsReply("destroy", FALSE) => prov' = prov]_vars

\* an instance was created and destroyed with success, and the destroy that
\* came next was answered not-found
C25_Witness ==
  /\ last.op = "http" /\ last.arg.route = "delete"
  /\ last.fx # <<>> /\ last.fx[Len(last.fx)] = NotFound
  /\ cloud.made = 1 /\ cloud.live = {}
  /\ ~prov[last.arg.agent].present
  /\ \A k \in Slots : pend[k] = Idle

\* ------------------------------------------------------ commands to workers
\* a step in which the dashboard handled a command whose body passed the
\* route's validation
IsCommand ==
  /\ last'.op = "http"
  /\ last'.arg.route \in {"message", "goals", "knowledge", "restart"}
  /\ last'.arg.body = "ok" \/ last'.arg.route = "restart"

\* C28: a dashboard command (message, goals, knowledge, restart) is written to
\* the socket indexed under the agent's id, as a frame of the command's type,
\* and answered 200 if and only if the index holds a socket for that id and
\* that socket is OPEN; otherwise nothing is sent and the answer is 503. No
\* command changes the index or any socket's state.
C28_SendIffOpenSession ==
  [][IsCommand =>
       LET a == last'.arg.agent
           r == last'.arg.route
           type == CASE r = "message" -> "send_message" [] r = "goals" -> "update_goals"
                     [] r = "knowledge" -> "inject_knowledge" [] OTHER -> "restart" IN
       /\ IF agents[a] # NoSock /\ sock[agents[a]].readyState = "OPEN"
          THEN last'.ret = 200 /\ last'.fx = << <<"send", agents[a], type>> >>
          ELSE last'.ret = 503 /\ last'.fx = <<>>
       /\ UNCHANGED <<sock, agents>>]_vars

\* a command for a worker whose indexed socket is closing was answered 503
\* with nothing sent
C28_Witness ==
  /\ last.op = "http" /\ last.arg.route = "message" /\ last.arg.body = "ok"
  /\ last.ret = 503 /\ last.fx = <<>>
  /\ agents[last.arg.agent] # NoSock
  /\ sock[agents[last.arg.agent]].readyState = "CLOSING"

\* ------------------------------------------------------ deleting an agent
\* a step in which DELETE /dashboard/agents/{id} answered: at once when the id
\* was not indexed, else when the provider answered
DeleteAnswered ==
  \/ last'.op = "http" /\ last'.arg.route = "delete" /\ pend' = pend
  \/ last'.op = "reply" /\ last'.arg[1].kind = "destroy" /\ last'.arg[1].via = "dashboard"
DeletedAgent == IF last'.op = "http" THEN last'.arg.agent ELSE last'.arg[1].agent

\* C30: DELETE /dashboard/agents/{id} first sends shutdown to the worker if
\* the socket indexed under the id is OPEN, then destroys the instance through
\* the provisioner, then removes the fleet record and answers 200; in the
\* state in which it has answered, the agent has neither a fleet record nor a
\* provisioner index entry.
C30_DeleteRemovesAgent ==
  /\ [][IsDestroy =>
          LET a == last'.arg.agent IN
          /\ (agents[a] # NoSock /\ sock[agents[a]].readyState = "OPEN")
               => last'.fx[1] = <<"send", agents[a], "shutdown">>
          /\ ~(agents[a] # NoSock /\ sock[agents[a]].readyState = "OPEN")
               => \A i \in 1..Len(last'.fx) : last'.fx[i][1] # "send"
          /\ prov[a].present =>
               last'.fx[Len(last'.fx)] = <<"destroy", prov[a].provider, prov[a].id>>]_vars
  /\ [][DeleteAnswered =>
          /\ last'.ret = 200
          /\ ~fleet'[DeletedAgent].present
          /\ ~prov'[DeletedAgent].present]_vars

\* ----------------------------------------------------------- authorization
\* the request carries the header Authorization: Bearer <token> under neither
\* spelling of the key
NoTokenHeader(h) ==
  /\ ~(h.lower.some /\ h.lower.v = <<"Bearer ", "T">>)
  /\ ~(h.upper.some /\ h.upper.v = <<"Bearer ", "T">>)

\* C29: a request to the dashboard API or the gateway API that does not carry
\* the header Authorization: Bearer <token> is answered 401 and changes
\* nothing: no provider call starts, the provisioner's index, the fleet
\* records and their file, the approvals, the sockets and the session index
\* stay as they were, and nothing is sent to a worker.
C29_UnauthorizedChangesNothing ==
  [][(last'.op = "http" /\ NoTokenHeader(last'.arg.h)) =>
       /\ UNCHANGED <<prov, cloud, pend>>
       /\ UNCHANGED <<fleet, acct, tally, disk, fm>>
       /\ UNCHANGED <<appr, queue, history, nHist, timerOn>>
       /\ UNCHANGED <<sock, agents, listening, mode, now>>
       /\ UNCHANGED <<bridge, promises, down>>
       /\ last'.fx = <<>>
       /\ last'.ret = 401]_vars

\* a DELETE without the token was answered 401 while the agent is deployed,
\* recorded and indexed, its worker is connected and its approval is pending
C29_Witness ==
  /\ last.op = "http" /\ last.arg.route = "delete" /\ last.ret = 401
  /\ last.arg.h.lower.some /\ last.arg.h.lower.v = <<"T">>
  /\ fleet[last.arg.agent].present
  /\ prov[last.arg.agent].present
  /\ agents[last.arg.agent] # NoSock /\ sock[agents[last.arg.agent]].readyState = "OPEN"
  /\ queue # <<>> /\ appr[queue[1]].state = "pending"

\* -------------------------------------------------------- bootstrap scripts
\* C31: two calls of the bootstrap-script generator with the same manifest
\* return the same script text, whenever they are made.
C31_ScriptDeterministic ==
  \A i, j \in 1..Len(generated) :
    generated[i].manifest = generated[j].manifest =>
      generated[i].script = generated[j].script

\* ----------------------------------------------------------- provider status
\* a step in which a provider's status() returned an instance
IsStatus == last'.op = "reply" /\ last'.arg[1].kind = "status" /\ last'.arg[2]

\* C32: the status every provider backend returns maps the provider's
\* lifecycle state as initializing/starting -> creating, running -> running,
\* stopping -> stopping, off -> stopped and every other state -> error.
C32_StatusMapping ==
  [][IsStatus =>
       LET raw == last'.arg[3] IN
       last'.fx[2] =
         <<"status",
           CASE raw \in {"initializing", "starting"} -> "creating"
             [] raw = "running" -> "running"
             [] raw = "stopping" -> "stopping"
             [] raw = "off" -> "stopped"
             [] OTHER -> "error">>]_vars

\* ------------------------------------------------------------- heartbeat
\* C33: the bridge holds a heartbeat timer exactly while its socket is open:
\* every open arms one, every disconnect and close() clears it, and at no time
\* is more than one heartbeat interval armed.
C33_OneHeartbeatWhileConnected ==
  /\ [](bridge.intervals <= 1)
  /\ []((bridge.intervals = 1) <=> (bridge.ws = "open"))
  /\ [](bridge.heartbeatTimer <=> (bridge.intervals = 1))
  /\ [][(bridge.ws # "open" /\ bridge'.ws = "open") => bridge'.intervals = 1]_vars
  /\ [][(bridge.ws = "open" /\ bridge'.ws # "open") => bridge'.intervals = 0]_vars

\* the bridge is open for the second time and one interval is armed, and a
\* heartbeat has just reached the control plane
C33_Witness ==
  /\ bridge.ws = "open" /\ bridge.intervals = 1 /\ bridge.attempt = 0
  /\ bridge.delay > 0
  /\ last.op = "frame"

\* ------------------------------------------------ sessions and fleet records
\* C34: whenever the control plane holds an open indexed session for an agent
\* id that has a fleet record, that record's connection is online, whatever
\* the order of the worker's connecting and the operator's registering.
C34_SessionImpliesOnline ==
  \A a \in AgentIds :
    (agents[a] # NoSock /\ sock[agents[a]].readyState = "OPEN" /\ fleet[a].present)
      => fleet[a].connection = "online"

\* ------------------------------------------------- relayed approval responses
\* the approval_response frames in q that were produced by approval o
FramesFor(q, o) == Cardinality({i \in DOMAIN q : q[i].obj = o})

\* C35: for each approval that reaches a terminal state, at most one
\* approval_response for its request id is written to the originating worker's
\* connection, whether the dashboard's respond endpoint, the command line or
\* the expiry timer resolved it.
C35_OneResponsePerApproval ==
  [][\A o \in 1..MaxObjs : FramesFor(down', o) <= FramesFor(down, o) + 1]_vars

\* ------------------------------------------------ what a call resolves to
\* C36: a requestApproval call resolves to true only if the approval manager
\* recorded an approve decision for the approval that call's approval_request
\* added (same id, same originating agent); no expiry, denial, stale or
\* duplicated response makes a call resolve to true, also when the worker
\* uses a request id again.
C36_TrueOnlyIfApproved ==
  \A c \in 1..Len(promises) :
    promises[c].state = "approved" =>
      /\ promises[c].obj # 0
      /\ appr[promises[c].obj].state = "approved"
      /\ appr[promises[c].obj].id = promises[c].id
      /\ appr[promises[c].obj].agentId = Worker

\* ------------------------------------------------- leaving the pending queue
\* C37: an approval that addRequest put into the pending queue leaves it only
\* by resolve or by the expiry scan and is then in history; addRequest never
\* replaces or discards an entry that is still pending, whichever agent the
\* colliding request id comes from.
C37_PendingLeavesOnlyResolved ==
  [][\A o \in 1..Len(appr) :
       (InSeq(queue, o) /\ ~InSeq(queue', o)) =>
         /\ last'.op \in {"resolve", "expireStale"}
         /\ InSeq(history'.recent, o)]_vars

\* ------------------------------------------------- approving after the expiry
\* C38: resolve never moves an approval to approved once the clock has passed
\* its expiresAt: from the expiry instant on, also before the next expiry scan,
\* an approve is refused or the entry is treated as expired.
C38_NoApproveAfterExpiry ==
  [][\A o \in 1..Len(appr) :
       (appr[o].state = "pending" /\ appr'[o].state = "approved") =>
         ~ExpiryPassed(appr[o].expiresAt, now)]_vars

\* ------------------------------------------------ whose record a frame changes
\* C39: a frame received on the session admitted for agent id A changes only
\* fleet record A and creates only approvals attributed to A, whatever agentId
\* field the frame carries: no other agent's record, counters or rings change.
C39_FrameTouchesOwnRecordOnly ==
  [][\A s \in Sockets, msg \in Messages :
       OnMessage(s, msg) =>
         LET A == sock[s].agentId IN
         /\ \A b \in AgentIds \ {A} : fleet'[b] = fleet[b] /\ acct'[b] = acct[b]
         /\ \A o \in (Len(appr) + 1)..Len(appr') : appr'[o].agentId = A
         /\ last'.op = "frame" => \A i \in 1..Len(last'.fx) : last'.fx[i][2] = A]_vars

\* both agents are registered, an action frame that names the other agent was
\* handled on this agent's session, and only this agent's counter moved
C39_Witness ==
  /\ last.op = "frame" /\ last.arg[3] = "action"
  /\ last.arg[4] # last.arg[2]
  /\ fleet[last.arg[2]].present /\ fleet[last.arg[4]].present
  /\ acct[last.arg[2]].totalActions = 1
  /\ acct[last.arg[4]].totalActions = 0

\* ------------------------------------------------- instances and their index
\* C40: under any interleaving of provision and destroy calls, every instance
\* a provider created for an agent id and has not destroyed is indexed under
\* that agent id: a second provision for the id drops no live instance from
\* the index, and a completing destroy removes only the entry of the instance
\* it destroyed.
C40_LiveInstancesIndexed ==
  \A iid \in cloud.live :
    /\ prov[cloud.owner[iid]].present
    /\ prov[cloud.owner[iid]].id = iid
====
